---- MODULE Spec2Model ----
(***************************************************************************)
(* Model of the pipeline compiler of Edge-GallyRAG's pipeline builder      *)
(* (pipeline-builder/src/utils/codeGenerator.ts): CodeGenerator.generate   *)
(* with its three stages validatePipeline, topologicalSort and             *)
(* generateKotlinCode.  A state is one compilation: the pipeline built by  *)
(* the constructor, the stage reached, and the values the stages return;   *)
(* next to it the clock the code reads and a second CodeGenerator, for the *)
(* properties that compare two compilations.  The editor that produces    *)
(* the compiler's input (components/PipelineCanvas.tsx with the            *)
(* ConfigurationPanel of components/NodePalette.tsx) is modelled by its    *)
(* React state and its handlers.                                           *)
(***************************************************************************)
EXTENDS Integers, Sequences, FiniteSets, TLC

VARIABLES
    pipeline,          \* this.pipeline: [nodes, edges], built by the constructor
    pc,                \* position inside generate()
    validationErrors,  \* const validationErrors = this.validatePipeline()
    executionOrder,    \* const executionOrder = this.topologicalSort()
    result,            \* the GeneratedCode that generate() returns
    context,           \* this.context: the imports the emitter collects
    now,               \* the clock read by Date.now() and new Date()
    other,             \* a second CodeGenerator: its fields and its position
    canvasNodes,       \* PipelineCanvas: const [nodes, setNodes]
    canvasEdges,       \* PipelineCanvas: const [edges, setEdges]
    selectedNode,      \* PipelineCanvas: the node object kept at the last click
    selectedNodes,     \* PipelineCanvas: the ids of the selected nodes
    isConfigOpen,      \* PipelineCanvas: whether the configuration panel shows
    panelConfig,       \* ConfigurationPanel: const [config, setConfig]
    timers             \* the pending setTimeout callbacks of onConnect

compilerVars == <<pipeline, pc, validationErrors, executionOrder, result,
                  context, other>>

editorVars == <<canvasNodes, canvasEdges, selectedNode, selectedNodes,
                isConfigOpen, panelConfig, timers>>

vars == <<pipeline, pc, validationErrors, executionOrder, result,
          context, now, other, canvasNodes, canvasEdges, selectedNode,
          selectedNodes, isConfigOpen, panelConfig, timers>>

----------------------------------------------------------------------------
(* Bounds of the explored inputs *)

\* graph family: nodes / edges of arbitrary shape over uniform nodes
MaxNodes == 3
MaxEdges == 2
\* typed family: edges with handles between nodes of the template catalogue
MaxTypedEdges == 2
\* long family: the largest number of processing nodes in a pipeline
MaxProcessing == 11

----------------------------------------------------------------------------
(* Values *)

\* an absent handle (edge.sourceHandle undefined / null); falsy in `||`
NoHandle == ""
\* executionOrder when topologicalSort returns null, and before it has run:
\* a list no ordering can be, since visit() pushes no id twice
Null == <<"null", "null">>
\* result before generate() has returned
NoResult == [pending |-> TRUE]
\* the second CodeGenerator before it is constructed
NoGenerator == [pc |-> "none"]
\* selectedNode when no node is selected (null)
NoSelection == [id |-> "", selected |-> FALSE]

\* the editor as PipelineCanvas mounts: useNodesState([]), useEdgesState([]),
\* no selection, the configuration panel closed, no timer pending
InitCanvas ==
    /\ canvasNodes = <<>>
    /\ canvasEdges = <<>>
    /\ selectedNode = NoSelection
    /\ selectedNodes = <<>>
    /\ isConfigOpen = FALSE
    /\ panelConfig = <<>>
    /\ timers = <<>>

\* NodeType enum values as used by the templates and the test cases
NodeTypes == {"input", "processing", "retrieval", "llm", "logic", "output"}

\* DataType enum values
DataTypes == {"pdf", "text", "chunks", "embeddings", "json", "boolean", "number"}

\* const compatibilityRules: Record<DataType, DataType[]>
compatibilityRules ==
    [s \in DataTypes |->
        CASE s = "pdf"        -> {"text"}
          [] s = "text"       -> {"chunks"}
          [] s = "chunks"     -> {"embeddings", "text"}
          [] s = "embeddings" -> {}
          [] s = "json"       -> {"text"}
          [] s = "boolean"    -> {"text"}
          [] s = "number"     -> {"text"}]

\* variant: only the exact match is accepted, the rules are never consulted
isDataTypeCompatibleExact(sourceType, targetType) ==
    sourceType = targetType

\* variant: the rules are read in both directions
isDataTypeCompatibleSymmetric(sourceType, targetType) ==
    \/ sourceType = targetType
    \/ targetType \in compatibilityRules[sourceType]
    \/ sourceType \in compatibilityRules[targetType]

\* variant: a type is also accepted where two rules lead to it in a chain
isDataTypeCompatibleChained(sourceType, targetType) ==
    \/ sourceType = targetType
    \/ /\ sourceType \in DOMAIN compatibilityRules
       /\ \/ targetType \in compatibilityRules[sourceType]
          \/ \E middle \in compatibilityRules[sourceType] :
                targetType \in compatibilityRules[middle]

\* isDataTypeCompatible(sourceType, targetType)
isDataTypeCompatible(sourceType, targetType) ==
    IF sourceType = targetType
    THEN TRUE
    ELSE IF sourceType \in DOMAIN compatibilityRules
         THEN targetType \in compatibilityRules[sourceType]
         ELSE FALSE

----------------------------------------------------------------------------
(* Sequence helpers standing for Array.prototype.find / filter / map *)

\* index of the first element with the given id, 0 when find() is undefined
FindIndex(seq, id) ==
    IF \E i \in 1..Len(seq) : seq[i].id = id
    THEN CHOOSE i \in 1..Len(seq) :
            /\ seq[i].id = id
            /\ \A j \in 1..(i - 1) : seq[j].id # id
    ELSE 0

Range(seq) == {seq[i] : i \in 1..Len(seq)}

RECURSIVE Flatten(_)
Flatten(seqs) ==
    IF seqs = <<>> THEN <<>> ELSE Head(seqs) \o Flatten(Tail(seqs))

----------------------------------------------------------------------------
(* Input pipelines *)

NodeId(i) == "n" \o ToString(i)
EdgeId(i) == "e" \o ToString(i)
\* a node id that no node of the pipeline carries
GhostId == "ghost"

Port(id, dataType) == [id |-> id, dataType |-> dataType]

\* node.data.config, as a list of entries; an entry's kind is the typeof its
\* value, "circular" being an object that refers to itself
PlainConfig    == <<[key |-> "maxLength", kind |-> "number"]>>
EmptyConfig    == <<>>
CircularConfig == <<[key |-> "self", kind |-> "circular"]>>

ReactNode(id, type, label, inputs, outputs, config) ==
    [id |-> id, type |-> type, label |-> label,
     inputs |-> inputs, outputs |-> outputs, config |-> config]

\* the node catalogue of the typed family
\*   1 PDF Input, 2 PDF Text Extractor, 3 Text Response (nodeTemplates.ts)
\*   4 Number Output (test case 5)
TemplateKinds == 1..4

TemplateNode(kind, id) ==
    CASE kind = 1 -> ReactNode(id, "input", "PDF Input",
                        <<>>, <<Port("pdf", "pdf")>>, PlainConfig)
      [] kind = 2 -> ReactNode(id, "processing", "PDF Text Extractor",
                        <<Port("pdf", "pdf")>>, <<Port("text", "text")>>, PlainConfig)
      [] kind = 3 -> ReactNode(id, "output", "Text Response",
                        <<Port("text", "text")>>, <<>>, PlainConfig)
      [] kind = 4 -> ReactNode(id, "output", "Number Output",
                        <<Port("number", "number")>>, <<>>, EmptyConfig)

\* uniform node of the graph family: first declared node is the input node,
\* last declared node the output node, the others processing nodes
GraphNodeType(i, n) ==
    IF i = 1 THEN "input" ELSE IF i = n THEN "output" ELSE "processing"

GraphNode(i, n, config) ==
    ReactNode(NodeId(i), GraphNodeType(i, n), "Node " \o ToString(i),
              <<Port("input", "text")>>, <<Port("output", "text")>>, config)

ReactEdge(source, target, sourceHandle, targetHandle) ==
    [source |-> source, target |-> target,
     sourceHandle |-> sourceHandle, targetHandle |-> targetHandle]

SeqsUpTo(S, n) == UNION {[1..k -> S] : k \in 0..n}

WithEdgeIds(es) ==
    [i \in 1..Len(es) |->
        [id |-> EdgeId(i), source |-> es[i].source, target |-> es[i].target,
         sourceHandle |-> es[i].sourceHandle, targetHandle |-> es[i].targetHandle]]

\* graph family: every edge list over the declared nodes, at most one node
\* with an empty or an unserialisable config
GraphConfigs(n) ==
    {[i \in 1..n |-> PlainConfig]}
    \cup {[i \in 1..n |-> IF i = k THEN c ELSE PlainConfig] :
            k \in 1..n, c \in {EmptyConfig, CircularConfig}}

GraphEdgeChoices(n) ==
    {ReactEdge(NodeId(s), NodeId(t), "output", "input") : s \in 1..n, t \in 1..n}

GraphNodes(n, cfg) == [i \in 1..n |-> GraphNode(i, n, cfg[i])]

\* typed family: a handle is a port of the node on that side, or absent
OutHandles(nodes, id) ==
    {NoHandle} \cup
    (IF FindIndex(nodes, id) = 0 THEN {}
     ELSE {p.id : p \in Range(nodes[FindIndex(nodes, id)].outputs)})

InHandles(nodes, id) ==
    {NoHandle} \cup
    (IF FindIndex(nodes, id) = 0 THEN {}
     ELSE {p.id : p \in Range(nodes[FindIndex(nodes, id)].inputs)})

TypedEdgeChoices(nodes) ==
    LET ends == {nodes[i].id : i \in 1..Len(nodes)} \cup {GhostId}
    IN  UNION { { ReactEdge(s, t, sh, th) :
                    sh \in OutHandles(nodes, s), th \in InHandles(nodes, t) } :
                <<s, t>> \in ends \X ends }

\* typed family: no node, one template node or two template nodes (the two
\* ends of an edge), in every combination of kinds
TypedNodeLists ==
    {<<>>}
    \cup {<<TemplateNode(k, NodeId(1))>> : k \in TemplateKinds}
    \cup {<<TemplateNode(k[1], NodeId(1)), TemplateNode(k[2], NodeId(2))>> :
            k \in TemplateKinds \X TemplateKinds}

\* catalogue family: an input node, one or two middle nodes and an output
\* node with the ports of nodeTemplates.ts
\*   1 PDF Text Extractor   2 Text Chunker        3 Embedding Generator
\*   4 Vector Store         5 Semantic Search     6 Gemma Generator
\*   7 Prompt Builder       8 Conditional Branch  9 Data Merger
\*  10 a node whose type is none of the NodeType values
CatalogueKinds == 1..10

CatalogueNode(kind, id, label) ==
    CASE kind = 1 -> ReactNode(id, "processing", label,
                        <<Port("pdf", "pdf")>>, <<Port("text", "text")>>, PlainConfig)
      [] kind = 2 -> ReactNode(id, "processing", label,
                        <<Port("text", "text")>>, <<Port("chunks", "chunks")>>,
                        PlainConfig)
      [] kind = 3 -> ReactNode(id, "processing", label,
                        <<Port("chunks", "chunks")>>,
                        <<Port("embeddings", "embeddings")>>, PlainConfig)
      [] kind = 4 -> ReactNode(id, "retrieval", label,
                        <<Port("embeddings", "embeddings"), Port("metadata", "json")>>,
                        <<Port("stored", "number")>>, PlainConfig)
      [] kind = 5 -> ReactNode(id, "retrieval", label,
                        <<Port("query", "text")>>,
                        <<Port("results", "chunks"), Port("scores", "json")>>,
                        PlainConfig)
      [] kind = 6 -> ReactNode(id, "llm", label,
                        <<Port("prompt", "text"), Port("context", "chunks")>>,
                        <<Port("response", "text")>>, PlainConfig)
      [] kind = 7 -> ReactNode(id, "llm", label,
                        <<Port("query", "text"), Port("context", "chunks")>>,
                        <<Port("prompt", "text")>>, PlainConfig)
      [] kind = 8 -> ReactNode(id, "logic", label,
                        <<Port("input", "text")>>,
                        <<Port("true", "text"), Port("false", "text")>>, PlainConfig)
      [] kind = 9 -> ReactNode(id, "logic", label,
                        <<Port("input1", "text"), Port("input2", "text")>>,
                        <<Port("merged", "text")>>, PlainConfig)
      [] kind = 10 -> ReactNode(id, "transform", label,
                        <<Port("input", "text")>>, <<Port("output", "text")>>,
                        PlainConfig)

\* the label of the template, and the labels a user may give the node instead
CatalogueLabels(kind) ==
    {"Step", "Stage"} \cup
    CASE kind = 1 -> {"PDF Text Extractor"}
      [] kind = 2 -> {"Text Chunker"}
      [] kind = 3 -> {"Embedding Generator"}
      [] kind = 4 -> {"Vector Store"}
      [] kind = 5 -> {"Semantic Search"}
      [] kind = 6 -> {"Gemma Generator"}
      [] kind = 7 -> {"Prompt Builder"}
      [] kind = 8 -> {"Conditional Branch", "If/Then"}
      [] kind = 9 -> {"Data Merger"}
      [] kind = 10 -> {}

CatalogueInputs ==
    {ReactNode(NodeId(1), "input", "PDF Input",
               <<>>, <<Port("pdf", "pdf")>>, PlainConfig),
     ReactNode(NodeId(1), "input", "Text Input",
               <<>>, <<Port("text", "text")>>, PlainConfig),
     ReactNode(NodeId(1), "input", "Step",
               <<>>, <<Port("text", "text")>>, PlainConfig)}

CatalogueOutput(id) ==
    ReactNode(id, "output", "Text Response",
              <<Port("text", "text")>>, <<>>, PlainConfig)

\* input, middle, output; or input, middle, the same middle node under
\* another label, output
CatalogueNodeLists ==
    UNION {
        {<<input, CatalogueNode(k, NodeId(2), l[1]), CatalogueOutput(NodeId(3))>> :
            l \in CatalogueLabels(k) \X {"-"}}
        \cup
        {<<input, CatalogueNode(k, NodeId(2), l[1]),
           CatalogueNode(k, NodeId(3), l[2]), CatalogueOutput(NodeId(4))>> :
            l \in {m \in CatalogueLabels(k) \X CatalogueLabels(k) : m[1] # m[2]}}
        : <<input, k>> \in CatalogueInputs \X CatalogueKinds }

\* the wire from the first output port of one node to the first input port
\* of another; none when a side has no such port
Wire(source, target) ==
    IF Len(source.outputs) = 0 \/ Len(target.inputs) = 0
    THEN <<>>
    ELSE <<ReactEdge(source.id, target.id, source.outputs[1].id, target.inputs[1].id)>>

\* every sub-list of the wires input -> middle and middle -> output
RECURSIVE SubLists(_)
SubLists(seq) ==
    IF seq = <<>> THEN {<<>>}
    ELSE LET rest == SubLists(Tail(seq))
         IN  rest \cup {<<Head(seq)>> \o r : r \in rest}

CatalogueEdgeLists(nodes) ==
    LET n == Len(nodes)
    IN  SubLists(Flatten([i \in 1..(n - 2) |->
            Wire(nodes[1], nodes[i + 1]) \o Wire(nodes[i + 1], nodes[n])]))

\* long family: an input node, a run of processing nodes around the size
\* the complexity warning looks at, an output node; no edge or one chain of
\* edges through all nodes; the first nodes without configuration
LongSizes == {k + 2 : k \in 9..MaxProcessing}

LongConfigs(n) ==
    {[i \in 1..n |-> IF i <= e THEN EmptyConfig ELSE PlainConfig] : e \in {0, 1, 2, n}}

LongEdgeLists(n) ==
    {<<>>,
     [i \in 1..(n - 1) |-> ReactEdge(NodeId(i), NodeId(i + 1), "output", "input")]}

\* port-pair family: one edge from an output port of any type to an input
\* port of any type; "unlisted" is a type the rules have no row for
PortTypes == DataTypes \cup {"unlisted"}

PortPairNodes(sourceType, targetType) ==
    <<ReactNode(NodeId(1), "input", "Step",
                <<>>, <<Port("out", sourceType)>>, PlainConfig),
      ReactNode(NodeId(2), "output", "Stage",
                <<Port("in", targetType)>>, <<>>, PlainConfig)>>

PortPairEdges == <<ReactEdge(NodeId(1), NodeId(2), "out", "in")>>

\* punctuated family: two input nodes and an output node; the ids of the
\* input nodes and of their output ports carry hyphens and underscores,
\* as ids a caller of generateCodeFromPipeline is free to choose
PunctuatedIds == {"a", "a_b", "a-b"}

PunctuatedPorts == {"c", "b_c"}

PunctuatedNodes(ids, ports) ==
    <<ReactNode(ids[1], "input", "Step",
                <<>>, <<Port(ports[1], "text")>>, PlainConfig),
      ReactNode(ids[2], "input", "Step",
                <<>>, <<Port(ports[2], "text")>>, PlainConfig),
      ReactNode("z", "output", "Stage",
                <<Port("in1", "text"), Port("in2", "text")>>, <<>>, PlainConfig)>>

PunctuatedEdgeLists(ids, ports) ==
    SubLists(<<ReactEdge(ids[1], "z", ports[1], "in1"),
               ReactEdge(ids[2], "z", ports[2], "in2")>>)

----------------------------------------------------------------------------
(* constructor: buildPipeline *)

\* inferDataType(edge, nodes)
inferDataType(edge, nodes) ==
    LET si == FindIndex(nodes, edge.source)
        pi == IF si = 0 THEN 0 ELSE FindIndex(nodes[si].outputs, edge.sourceHandle)
    IN  IF pi = 0 THEN "text" ELSE nodes[si].outputs[pi].dataType

PipelineName == "Generated Pipeline"

\* variant: a dataType the caller put on an edge is kept
buildPipelineTrusting(nodes, edges) ==
    [id |-> "pipeline-" \o ToString(now),
     name |-> PipelineName,
     nodes |-> nodes,
     edges |-> [i \in 1..Len(edges) |->
        [id |-> edges[i].id,
         source |-> edges[i].source, target |-> edges[i].target,
         sourceHandle |-> edges[i].sourceHandle,
         targetHandle |-> edges[i].targetHandle,
         sourcePort |-> IF edges[i].sourceHandle = NoHandle
                        THEN "output" ELSE edges[i].sourceHandle,
         targetPort |-> IF edges[i].targetHandle = NoHandle
                        THEN "input" ELSE edges[i].targetHandle,
         dataType |-> IF "dataType" \in DOMAIN edges[i]
                      THEN edges[i].dataType
                      ELSE inferDataType(edges[i], nodes),
         validated |-> TRUE]]]

\* buildPipeline(nodes, edges, name); ...edge is overwritten field by field
buildPipeline(nodes, edges) ==
    [id |-> "pipeline-" \o ToString(now),
     name |-> PipelineName,
     nodes |-> nodes,
     edges |-> [i \in 1..Len(edges) |->
        [id |-> edges[i].id,
         source |-> edges[i].source, target |-> edges[i].target,
         sourceHandle |-> edges[i].sourceHandle,
         targetHandle |-> edges[i].targetHandle,
         sourcePort |-> IF edges[i].sourceHandle = NoHandle
                        THEN "output" ELSE edges[i].sourceHandle,
         targetPort |-> IF edges[i].targetHandle = NoHandle
                        THEN "input" ELSE edges[i].targetHandle,
         dataType |-> inferDataType(edges[i], nodes),
         validated |-> TRUE]]]

----------------------------------------------------------------------------
(* validatePipeline *)

MissingInputError  == "Pipeline must have at least one input node"
MissingOutputError == "Pipeline must have at least one output node"

InvalidConnectionError(edge) ==
    "Invalid connection: " \o edge.source \o " -> " \o edge.target

IncompatibleTypesError(sourceType, targetType, sourceLabel, targetLabel) ==
    "Incompatible data types: " \o sourceType \o " -> " \o targetType
        \o " (" \o sourceLabel \o " -> " \o targetLabel \o ")"

\* variant: the loop is left at the first edge with an unresolved node
RECURSIVE validateConnectionsBreak(_, _, _)
validateConnectionsBreak(p, i, errors) ==
    IF i > Len(p.edges)
    THEN errors
    ELSE LET edge == p.edges[i]
             si   == FindIndex(p.nodes, edge.source)
             ti   == FindIndex(p.nodes, edge.target)
         IN  IF si = 0 \/ ti = 0
             THEN Append(errors, InvalidConnectionError(edge))
             ELSE LET sourceNode == p.nodes[si]
                      targetNode == p.nodes[ti]
                      sp == FindIndex(sourceNode.outputs, edge.sourceHandle)
                      tp == FindIndex(targetNode.inputs, edge.targetHandle)
                  IN  IF /\ sp # 0
                         /\ tp # 0
                         /\ ~isDataTypeCompatible(sourceNode.outputs[sp].dataType,
                                                  targetNode.inputs[tp].dataType)
                      THEN validateConnectionsBreak(p, i + 1,
                              Append(errors,
                                  IncompatibleTypesError(
                                      sourceNode.outputs[sp].dataType,
                                      targetNode.inputs[tp].dataType,
                                      sourceNode.label, targetNode.label)))
                      ELSE validateConnectionsBreak(p, i + 1, errors)

\* the for-loop over this.pipeline.edges, from edge i on
RECURSIVE validateConnections(_, _, _)
validateConnections(p, i, errors) ==
    IF i > Len(p.edges)
    THEN errors
    ELSE LET edge == p.edges[i]
             si   == FindIndex(p.nodes, edge.source)
             ti   == FindIndex(p.nodes, edge.target)
         IN  IF si = 0 \/ ti = 0
             THEN \* push, continue
                  validateConnections(p, i + 1,
                      Append(errors, InvalidConnectionError(edge)))
             ELSE LET sourceNode == p.nodes[si]
                      targetNode == p.nodes[ti]
                      sp == FindIndex(sourceNode.outputs, edge.sourceHandle)
                      tp == FindIndex(targetNode.inputs, edge.targetHandle)
                  IN  IF /\ sp # 0
                         /\ tp # 0
                         /\ ~isDataTypeCompatible(sourceNode.outputs[sp].dataType,
                                                  targetNode.inputs[tp].dataType)
                      THEN validateConnections(p, i + 1,
                              Append(errors,
                                  IncompatibleTypesError(
                                      sourceNode.outputs[sp].dataType,
                                      targetNode.inputs[tp].dataType,
                                      sourceNode.label, targetNode.label)))
                      ELSE validateConnections(p, i + 1, errors)

\* variant: the output-node check is an else-branch of the input-node check
validatePipelineElseIf(p) ==
    LET inputNodes  == SelectSeq(p.nodes, LAMBDA n : n.type = "input")
        outputNodes == SelectSeq(p.nodes, LAMBDA n : n.type = "output")
        e1 == IF Len(inputNodes) = 0 THEN <<MissingInputError>>
              ELSE IF Len(outputNodes) = 0 THEN <<MissingOutputError>> ELSE <<>>
    IN  validateConnections(p, 1, e1)

validatePipeline(p) ==
    LET inputNodes  == SelectSeq(p.nodes, LAMBDA n : n.type = "input")
        outputNodes == SelectSeq(p.nodes, LAMBDA n : n.type = "output")
        e1 == IF Len(inputNodes) = 0 THEN <<MissingInputError>> ELSE <<>>
        e2 == IF Len(outputNodes) = 0 THEN Append(e1, MissingOutputError) ELSE e1
    IN  validateConnections(p, 1, e2)

----------------------------------------------------------------------------
(* topologicalSort *)

\* variant: the edges are followed the wrong way round
dependenciesReversed(p, nodeId) ==
    LET outgoing == SelectSeq(p.edges, LAMBDA e : e.source = nodeId)
    IN  [i \in 1..Len(outgoing) |-> outgoing[i].target]

\* edges.filter(edge => edge.target === nodeId).map(edge => edge.source)
dependencies(p, nodeId) ==
    LET incoming == SelectSeq(p.edges, LAMBDA e : e.target = nodeId)
    IN  [i \in 1..Len(incoming) |-> incoming[i].source]

\* st = [ok, visited, visiting, result]; ok is the boolean visit() returns
RECURSIVE visit(_, _, _), visitDependencies(_, _, _, _)

\* variant: a visited node is put at the front of the result
visitUnshift(p, nodeId, st) ==
    IF nodeId \in st.visiting
    THEN [st EXCEPT !.ok = FALSE]
    ELSE IF nodeId \in st.visited
    THEN [st EXCEPT !.ok = TRUE]
    ELSE LET r == visitDependencies(p, dependencies(p, nodeId), 1,
                     [st EXCEPT !.visiting = @ \cup {nodeId}])
         IN  IF ~r.ok
             THEN r
             ELSE [ok       |-> TRUE,
                   visiting |-> r.visiting \ {nodeId},
                   visited  |-> r.visited \cup {nodeId},
                   result   |-> <<nodeId>> \o r.result]

visit(p, nodeId, st) ==
    IF nodeId \in st.visiting
    THEN [st EXCEPT !.ok = FALSE]
    ELSE IF nodeId \in st.visited
    THEN [st EXCEPT !.ok = TRUE]
    ELSE LET r == visitDependencies(p, dependencies(p, nodeId), 1,
                     [st EXCEPT !.visiting = @ \cup {nodeId}])
         IN  IF ~r.ok
             THEN r
             ELSE [ok       |-> TRUE,
                   visiting |-> r.visiting \ {nodeId},
                   visited  |-> r.visited \cup {nodeId},
                   result   |-> Append(r.result, nodeId)]

\* for (const depId of dependencies) if (!visit(depId)) return false
visitDependencies(p, deps, i, st) ==
    IF i > Len(deps)
    THEN [st EXCEPT !.ok = TRUE]
    ELSE LET r == visit(p, deps[i], st)
         IN  IF ~r.ok THEN r ELSE visitDependencies(p, deps, i + 1, r)

\* variant: the outer loop runs over the nodes from the last declared one
RECURSIVE visitNodesReversed(_, _, _)
visitNodesReversed(p, i, st) ==
    IF i > Len(p.nodes)
    THEN [st EXCEPT !.ok = TRUE]
    ELSE LET r == visit(p, p.nodes[Len(p.nodes) - i + 1].id, st)
         IN  IF ~r.ok THEN r ELSE visitNodesReversed(p, i + 1, r)

\* for (const node of this.pipeline.nodes) if (!visit(node.id)) return null
RECURSIVE visitNodes(_, _, _)
visitNodes(p, i, st) ==
    IF i > Len(p.nodes)
    THEN [st EXCEPT !.ok = TRUE]
    ELSE LET r == visit(p, p.nodes[i].id, st)
         IN  IF ~r.ok THEN r ELSE visitNodes(p, i + 1, r)

\* variant: the ordering collected so far is returned when a cycle is found
topologicalSortPartial(p) ==
    visitNodes(p, 1,
        [ok |-> TRUE, visited |-> {}, visiting |-> {}, result |-> <<>>]).result

topologicalSort(p) ==
    LET r == visitNodes(p, 1,
                 [ok |-> TRUE, visited |-> {}, visiting |-> {}, result |-> <<>>])
    IN  IF r.ok THEN r.result ELSE Null

----------------------------------------------------------------------------
(* generateKotlinCode and its helpers.  The emitted text is kept as the     *)
(* structure it prints: the per-node procedures, the calls of              *)
(* executePipeline and the lines of extractFinalOutputs.                   *)

\* typeof value of a config entry decides how formatConfigMap prints it;
\* JSON.stringify throws on a circular object
formatConfigMapThrows(config) ==
    \E i \in 1..Len(config) : config[i].kind = "circular"

formatConfigMap(config) ==
    [i \in 1..Len(config) |->
        [key |-> config[i].key,
         quoted |-> config[i].kind \notin {"number", "boolean"}]]

generateNodeConfigurations(p) ==
    [i \in 1..Len(p.nodes) |->
        [node |-> p.nodes[i].id, entries |-> formatConfigMap(p.nodes[i].config)]]

----------------------------------------------------------------------------
(* generateNodeLogic and the per-category routines.  The emitted body is   *)
(* kept as its comment line and its `val` statements, each with the names  *)
(* its right-hand side refers to.                                          *)

RECURSIVE Digits(_)
Digits(i) ==
    IF i < 10 THEN <<ToString(i)>> ELSE Digits(i \div 10) \o <<ToString(i % 10)>>

\* label.toLowerCase(), as the sequence of its characters; the labels that
\* are not listed are the "Node <i>" labels of the graph family
toLowerCase(label) ==
    CASE label = "PDF Input" ->
            <<"p", "d", "f", " ", "i", "n", "p", "u", "t">>
      [] label = "Text Input" ->
            <<"t", "e", "x", "t", " ", "i", "n", "p", "u", "t">>
      [] label = "PDF Text Extractor" ->
            <<"p", "d", "f", " ", "t", "e", "x", "t", " ",
              "e", "x", "t", "r", "a", "c", "t", "o", "r">>
      [] label = "Text Chunker" ->
            <<"t", "e", "x", "t", " ", "c", "h", "u", "n", "k", "e", "r">>
      [] label = "Embedding Generator" ->
            <<"e", "m", "b", "e", "d", "d", "i", "n", "g", " ",
              "g", "e", "n", "e", "r", "a", "t", "o", "r">>
      [] label = "Vector Store" ->
            <<"v", "e", "c", "t", "o", "r", " ", "s", "t", "o", "r", "e">>
      [] label = "Semantic Search" ->
            <<"s", "e", "m", "a", "n", "t", "i", "c", " ",
              "s", "e", "a", "r", "c", "h">>
      [] label = "Gemma Generator" ->
            <<"g", "e", "m", "m", "a", " ",
              "g", "e", "n", "e", "r", "a", "t", "o", "r">>
      [] label = "Prompt Builder" ->
            <<"p", "r", "o", "m", "p", "t", " ", "b", "u", "i", "l", "d", "e", "r">>
      [] label = "Conditional Branch" ->
            <<"c", "o", "n", "d", "i", "t", "i", "o", "n", "a", "l", " ",
              "b", "r", "a", "n", "c", "h">>
      [] label = "Data Merger" ->
            <<"d", "a", "t", "a", " ", "m", "e", "r", "g", "e", "r">>
      [] label = "Text Response" ->
            <<"t", "e", "x", "t", " ", "r", "e", "s", "p", "o", "n", "s", "e">>
      [] label = "Number Output" ->
            <<"n", "u", "m", "b", "e", "r", " ", "o", "u", "t", "p", "u", "t">>
      [] label = "If/Then" ->
            <<"i", "f", "/", "t", "h", "e", "n">>
      [] label = "Step" ->
            <<"s", "t", "e", "p">>
      [] label = "Stage" ->
            <<"s", "t", "a", "g", "e">>
      [] OTHER ->
            <<"n", "o", "d", "e", " ">>
                \o Digits(CHOOSE i \in 1..99 : label = "Node " \o ToString(i))

\* String.prototype.includes on character sequences
includes(chars, keyword) ==
    \E i \in 1..(Len(chars) - Len(keyword) + 1) :
        SubSeq(chars, i, i + Len(keyword) - 1) = keyword

\* node.data.label.toLowerCase().includes(keyword)
labelIncludes(node, keyword) == includes(toLowerCase(node.label), keyword)

\* one `val <name> = <expression>` line; uses are the names the expression
\* refers to
Stmt(name, uses) == [val |-> name, uses |-> uses]

Logic(comment, statements) == [comment |-> comment, statements |-> statements]

generateInputNodeLogic(node) ==
    IF labelIncludes(node, <<"p", "d", "f">>)
    THEN Logic("PDF Input Node", <<Stmt("pdfResult", {"nodeOutputs"})>>)
    ELSE IF labelIncludes(node, <<"t", "e", "x", "t">>)
    THEN Logic("Text Input Node", <<Stmt("textResult", {"nodeOutputs", "config"})>>)
    ELSE Logic("Generic Input Node", <<Stmt("inputResult", {"nodeOutputs"})>>)

generateProcessingNodeLogic(node) ==
    IF labelIncludes(node, <<"c", "h", "u", "n", "k", "e", "r">>)
    THEN Logic("Text Chunker Node",
            <<Stmt("inputText", {"input"}),
              Stmt("chunkSize", {"config"}),
              Stmt("overlap", {"config"}),
              Stmt("chunksResult",
                   {"ragPipeline", "inputText", "chunkSize", "overlap"})>>)
    ELSE IF labelIncludes(node, <<"e", "m", "b", "e", "d", "d", "i", "n", "g">>)
    THEN Logic("Embedding Generator Node",
            <<Stmt("inputChunks", {"chunks"}),
              Stmt("embeddingsResult", {"ragPipeline", "inputChunks"})>>)
    ELSE IF labelIncludes(node, <<"e", "x", "t", "r", "a", "c", "t", "o", "r">>)
    THEN Logic("PDF Text Extractor Node",
            <<Stmt("pdfUri", {"pdf"}),
              Stmt("textResult", {"ragPipeline", "pdfUri"})>>)
    ELSE Logic("Generic Processing Node", <<Stmt("processedResult", {"input"})>>)

generateRetrievalNodeLogic(node) ==
    IF labelIncludes(node, <<"s", "e", "a", "r", "c", "h">>)
    THEN Logic("Similarity Search Node",
            <<Stmt("queryText", {"query"}),
              Stmt("topK", {"config"}),
              Stmt("threshold", {"config"}),
              Stmt("resultsResult",
                   {"ragPipeline", "queryText", "topK", "threshold"})>>)
    ELSE IF labelIncludes(node, <<"v", "e", "c", "t", "o", "r">>)
    THEN Logic("Vector Store Node",
            <<Stmt("inputEmbeddings", {"embeddings"}),
              Stmt("storedResult", {"ragPipeline", "inputEmbeddings"})>>)
    ELSE Logic("Generic Retrieval Node", <<Stmt("retrievalResult", {"input"})>>)

\* inputConnections.find(edge => edge.targetHandle === handle) is defined
hasInputOn(p, node, handle) ==
    \E i \in 1..Len(p.edges) :
        p.edges[i].target = node.id /\ p.edges[i].targetHandle = handle

generateLlmNodeLogic(p, node) ==
    IF labelIncludes(node, <<"g", "e", "m", "m", "a">>)
    THEN Logic("Gemma LLM Node",
            <<Stmt("inputPrompt",
                   IF hasInputOn(p, node, "prompt") THEN {"prompt"} ELSE {"config"}),
              Stmt("contextChunks",
                   IF hasInputOn(p, node, "context") THEN {"context"} ELSE {}),
              Stmt("temperature", {"config"}),
              Stmt("maxTokens", {"config"}),
              Stmt("responseResult",
                   {"ragPipeline", "inputPrompt", "contextChunks",
                    "temperature", "maxTokens"})>>)
    ELSE IF labelIncludes(node, <<"p", "r", "o", "m", "p", "t">>)
    THEN Logic("Prompt Builder Node",
            <<Stmt("userQuery",
                   IF hasInputOn(p, node, "query") THEN {"query"} ELSE {"config"}),
              Stmt("contextChunks",
                   IF hasInputOn(p, node, "context") THEN {"context"} ELSE {}),
              Stmt("template", {"config"}),
              Stmt("promptResult",
                   {"ragPipeline", "userQuery", "contextChunks", "template"})>>)
    ELSE Logic("Generic LLM Node", <<Stmt("llmResult", {"nodeOutputs"})>>)

generateLogicNodeLogic(node) ==
    IF labelIncludes(node, <<"i", "f">>)
    THEN Logic("If/Then Logic Node",
            <<Stmt("inputValue", {"input"}),
              Stmt("condition", {"config"}),
              Stmt("checkValue", {"config"}),
              Stmt("conditionResult", {"condition", "inputValue", "checkValue"}),
              Stmt("trueResult", {"conditionResult", "inputValue"}),
              Stmt("falseResult", {"conditionResult", "inputValue"})>>)
    ELSE Logic("Generic Logic Node", <<Stmt("logicResult", {"input"})>>)

generateOutputNodeLogic(p, node) ==
    LET inputConnections == SelectSeq(p.edges, LAMBDA e : e.target = node.id)
    IN  IF Len(inputConnections) > 0
        THEN LET primaryInput == inputConnections[1]
                 inputVar == IF primaryInput.targetHandle = NoHandle
                             THEN "input" ELSE primaryInput.targetHandle
             IN  Logic("Output Node", <<Stmt("outputResult", {inputVar})>>)
        ELSE Logic("Output Node", <<Stmt("outputResult", {"nodeOutputs"})>>)

\* default: return '            // Unknown node type'
UnknownNodeTypeLogic == Logic("Unknown node type", <<>>)

\* variant: every routine heads its body with the node's label
generateNodeLogicLabelled(p, node) ==
    LET body ==
            CASE node.type = "input"      -> generateInputNodeLogic(node)
              [] node.type = "processing" -> generateProcessingNodeLogic(node)
              [] node.type = "retrieval"  -> generateRetrievalNodeLogic(node)
              [] node.type = "llm"        -> generateLlmNodeLogic(p, node)
              [] node.type = "logic"      -> generateLogicNodeLogic(node)
              [] node.type = "output"     -> generateOutputNodeLogic(p, node)
              [] OTHER                    -> UnknownNodeTypeLogic
    IN  Logic(node.label, body.statements)

\* switch (node.data.type)
generateNodeLogic(p, node) ==
    CASE node.type = "input"      -> generateInputNodeLogic(node)
      [] node.type = "processing" -> generateProcessingNodeLogic(node)
      [] node.type = "retrieval"  -> generateRetrievalNodeLogic(node)
      [] node.type = "llm"        -> generateLlmNodeLogic(p, node)
      [] node.type = "logic"      -> generateLogicNodeLogic(node)
      [] node.type = "output"     -> generateOutputNodeLogic(p, node)
      [] OTHER                    -> UnknownNodeTypeLogic

\* nodeId.replace(/[^a-zA-Z0-9]/g, '_'): every character that is neither a
\* letter nor a digit becomes an underscore; the ids NodeId produces are
\* alphanumeric and stay as they are
sanitize(nodeId) ==
    CASE nodeId = "a-b" -> "a_b"
      [] nodeId = "a_b" -> "a_b"
      [] OTHER          -> nodeId

\* `executeNode_${nodeId.replace(/[^a-zA-Z0-9]/g, '_')}`
methodName(nodeId) == "executeNode_" \o sanitize(nodeId)

\* the key of nodeOutputs built from a node id and a port id
outputKey(nodeId, portId) == nodeId \o "_" \o portId

generateNodeMethod(p, node) ==
    LET inputConnections == SelectSeq(p.edges, LAMBDA e : e.target = node.id)
    IN  [name  |-> methodName(node.id),
         node  |-> node.id,
         label |-> node.label,
         logic |-> generateNodeLogic(p, node),
         inputMappings |->
            [i \in 1..Len(inputConnections) |->
                LET edge == inputConnections[i]
                    sourceOutput == IF edge.sourceHandle = NoHandle
                                    THEN "output" ELSE edge.sourceHandle
                    targetInput  == IF edge.targetHandle = NoHandle
                                    THEN "input" ELSE edge.targetHandle
                IN  [variable |-> targetInput,
                     key |-> outputKey(edge.source, sourceOutput)]],
         outputAssignments |->
            [i \in 1..Len(node.outputs) |->
                [key |-> outputKey(node.id, node.outputs[i].id),
                 value |-> node.outputs[i].id \o "Result"]]]

\* executionOrder.map(nodeId => nodes.find(n => n.id === nodeId)!) reads
\* .data of undefined when an id of the order is not a node
orderHasUnknownNode(p, order) ==
    \E i \in 1..Len(order) : FindIndex(p.nodes, order[i]) = 0

generateClassBody(p, order) ==
    [i \in 1..Len(order) |->
        generateNodeMethod(p, p.nodes[FindIndex(p.nodes, order[i])])]

generateExecutionSequence(p, order) ==
    [i \in 1..Len(order) |->
        [label |-> p.nodes[FindIndex(p.nodes, order[i])].label,
         call  |-> methodName(order[i])]]

generateOutputExtraction(p) ==
    LET outputNodes == SelectSeq(p.nodes, LAMBDA n : n.type = "output")
    IN  [i \in 1..Len(outputNodes) |->
            LET node == outputNodes[i]
                outputPort == IF Len(node.outputs) > 0
                              THEN node.outputs[1].id ELSE "output"
            IN  [label |-> node.label,
                 key |-> outputKey(node.id, outputPort)]]

generateKotlinCodeThrows(p, order) ==
    \/ orderHasUnknownNode(p, order)
    \/ \E i \in 1..Len(p.nodes) : formatConfigMapThrows(p.nodes[i].config)

\* this.context as the constructor leaves it
NewContext == [imports |-> <<>>, dependencies |-> <<>>]

\* this.context.imports = Array.from(imports)
addRequiredImports(ctx) ==
    [ctx EXCEPT !.imports = <<"import android.app.Application",
                              "import com.google.ai.edge.gallery.rag.RagPipeline">>]

\* variant: the header names the pipeline by its id
generateKotlinCodeById(p, ctx, order) ==
    [imports |-> addRequiredImports(ctx).imports,
     name |-> p.id,
     nodeCount |-> Len(p.nodes),
     edgeCount |-> Len(p.edges),
     generatedAt |-> now,
     nodeConfigurations |-> generateNodeConfigurations(p),
     classBody |-> generateClassBody(p, order),
     executionSequence |-> generateExecutionSequence(p, order),
     outputExtraction |-> generateOutputExtraction(p)]

\* ctx is this.context when the method is entered
generateKotlinCode(p, ctx, order) ==
    [imports |-> addRequiredImports(ctx).imports,
     name |-> p.name,
     nodeCount |-> Len(p.nodes),
     generatedAt |-> now,
     edgeCount |-> Len(p.edges),
     nodeConfigurations |-> generateNodeConfigurations(p),
     classBody |-> generateClassBody(p, order),
     executionSequence |-> generateExecutionSequence(p, order),
     outputExtraction |-> generateOutputExtraction(p)]

generateBuildGradle ==
    <<"implementation(\"com.google.ai.edge:local-agents-rag:1.0.0\")",
      "implementation(\"androidx.lifecycle:lifecycle-viewmodel-ktx:2.7.0\")">>

\* processingNodes.length > 10
ProcessingWarnThreshold == 10

\* variant: the complexity warning is already given at the threshold
getWarningsAtThreshold(p) ==
    LET processingNodes == SelectSeq(p.nodes, LAMBDA n : n.type = "processing")
        noConfig == SelectSeq(p.nodes, LAMBDA n : Len(n.config) = 0)
    IN  (IF Len(processingNodes) >= ProcessingWarnThreshold
         THEN <<"Pipeline has many processing nodes - consider optimizing for performance">>
         ELSE <<>>)
        \o [i \in 1..Len(noConfig) |->
              "Node '" \o noConfig[i].label \o "' has no configuration - using defaults"]

getWarnings(p) ==
    LET processingNodes == SelectSeq(p.nodes, LAMBDA n : n.type = "processing")
        noConfig == SelectSeq(p.nodes, LAMBDA n : Len(n.config) = 0)
    IN  (IF Len(processingNodes) > ProcessingWarnThreshold
         THEN <<"Pipeline has many processing nodes - consider optimizing for performance">>
         ELSE <<>>)
        \o [i \in 1..Len(noConfig) |->
              "Node '" \o noConfig[i].label \o "' has no configuration - using defaults"]

----------------------------------------------------------------------------
(* generate *)

CycleError == "Pipeline contains circular dependencies"

\* variant: a failed result still carries (empty) source text
FailureWithCode(errors) ==
    [success |-> FALSE, kotlinCode |-> "", errors |-> errors, warnings |-> <<>>]

\* { success: false, errors, warnings: [] }
Failure(errors) == [success |-> FALSE, errors |-> errors, warnings |-> <<>>]

\* new CodeGenerator(nodes, edges): the constructor has built this.pipeline
Init ==
    /\ now = 0
    /\ \/ \E n \in 1..MaxNodes :
            \E cfg \in GraphConfigs(n) :
                \E es \in SeqsUpTo(GraphEdgeChoices(n), MaxEdges) :
                    pipeline = buildPipeline(GraphNodes(n, cfg), WithEdgeIds(es))
       \/ \E nodes \in TypedNodeLists :
            \E es \in SeqsUpTo(TypedEdgeChoices(nodes), MaxTypedEdges) :
                pipeline = buildPipeline(nodes, WithEdgeIds(es))
       \/ \E nodes \in CatalogueNodeLists :
            \E es \in CatalogueEdgeLists(nodes) :
                pipeline = buildPipeline(nodes, WithEdgeIds(es))
       \/ \E sourceType \in PortTypes, targetType \in PortTypes :
            pipeline = buildPipeline(PortPairNodes(sourceType, targetType),
                                     WithEdgeIds(PortPairEdges))
       \/ \E n \in LongSizes :
            \E cfg \in LongConfigs(n) :
                \E es \in LongEdgeLists(n) :
                    pipeline = buildPipeline(GraphNodes(n, cfg), WithEdgeIds(es))
       \/ \E ids \in {i \in PunctuatedIds \X PunctuatedIds : i[1] # i[2]} :
            \E ports \in PunctuatedPorts \X PunctuatedPorts :
                \E es \in PunctuatedEdgeLists(ids, ports) :
                    pipeline = buildPipeline(PunctuatedNodes(ids, ports),
                                             WithEdgeIds(es))
    /\ pc = "built"
    /\ validationErrors = <<>>
    /\ executionOrder = Null
    /\ result = NoResult
    /\ context = NewContext
    /\ other = NoGenerator
    /\ InitCanvas

\* variant: the diagnostics are kept, but generate() goes on to the scheduler
ValidateThenContinue ==
    /\ pc = "built"
    /\ validationErrors' = validatePipeline(pipeline)
    /\ result' = result
    /\ pc' = "validated"
    /\ UNCHANGED editorVars
    /\ UNCHANGED <<pipeline, executionOrder, context, now, other>>

\* 1. Validate pipeline structure
Validate ==
    /\ pc = "built"
    /\ validationErrors' = validatePipeline(pipeline)
    /\ IF Len(validationErrors') > 0
       THEN /\ result' = Failure(validationErrors')
            /\ pc' = "rejected"
       ELSE /\ result' = result
            /\ pc' = "validated"
    /\ UNCHANGED editorVars
    /\ UNCHANGED <<pipeline, executionOrder, context, now, other>>

\* 2. Analyze execution order (topological sort)
Schedule ==
    /\ pc = "validated"
    /\ executionOrder' = topologicalSort(pipeline)
    /\ IF executionOrder' = Null
       THEN /\ result' = Failure(<<CycleError>>)
            /\ pc' = "rejected"
       ELSE /\ result' = result
            /\ pc' = "scheduled"
    /\ UNCHANGED editorVars
    /\ UNCHANGED <<pipeline, validationErrors, context, now, other>>

\* variant: generate() without its catch block; an exception thrown by
\* generateKotlinCode leaves the call without a result
EmitUncaught ==
    /\ pc = "scheduled"
    /\ ~generateKotlinCodeThrows(pipeline, executionOrder)
    /\ context' = addRequiredImports(context)
    /\ result' = [success |-> TRUE,
                  kotlinCode |-> generateKotlinCode(pipeline, context,
                                                    executionOrder),
                  buildGradle |-> generateBuildGradle,
                  errors |-> <<>>,
                  warnings |-> getWarnings(pipeline)]
    /\ pc' = "emitted"
    /\ UNCHANGED editorVars
    /\ UNCHANGED <<pipeline, validationErrors, executionOrder, now, other>>

\* 3. Generate Kotlin code; an exception lands in the catch block
Emit ==
    /\ pc = "scheduled"
    /\ context' = addRequiredImports(context)
    /\ IF generateKotlinCodeThrows(pipeline, executionOrder)
       THEN /\ result' = Failure(<<"Code generation failed: " \o
                            (IF orderHasUnknownNode(pipeline, executionOrder)
                             THEN "Cannot read properties of undefined"
                             ELSE "Converting circular structure to JSON")>>)
            /\ pc' = "rejected"
       ELSE /\ result' = [success |-> TRUE,
                          kotlinCode |-> generateKotlinCode(pipeline, context,
                                                            executionOrder),
                          buildGradle |-> generateBuildGradle,
                          errors |-> <<>>,
                          warnings |-> getWarnings(pipeline)]
            /\ pc' = "emitted"
    /\ UNCHANGED editorVars
    /\ UNCHANGED <<pipeline, validationErrors, executionOrder, now, other>>

Next == Validate \/ Schedule \/ Emit

Spec == Init /\ [][Next]_vars

\* the compilations whose termination is looked at: the graph family, which
\* holds the self-loops (the cycles of one edge), the disconnected nodes and
\* the configs the emitter throws on
LiveNodes == 2
LiveEdges == 1

InitLive ==
    /\ now = 0
    /\ \E n \in 1..LiveNodes :
          \E cfg \in GraphConfigs(n) :
              \E es \in SeqsUpTo(GraphEdgeChoices(n), LiveEdges) :
                  pipeline = buildPipeline(GraphNodes(n, cfg), WithEdgeIds(es))
    /\ pc = "built"
    /\ validationErrors = <<>>
    /\ executionOrder = Null
    /\ result = NoResult
    /\ context = NewContext
    /\ other = NoGenerator
    /\ InitCanvas

\* generate() is one synchronous call: once entered it runs each of its
\* statements in turn, so a step that can be taken is taken
SpecLive == InitLive /\ [][Next]_vars /\ WF_vars(Next)

----------------------------------------------------------------------------
(* Two compilations.  generateCodeFromPipeline constructs a CodeGenerator  *)
(* per call; `other` is a second one, constructed at any time while the    *)
(* first is built, running or finished, and stepped through generate() in  *)
(* any interleaving with the first.                                        *)

\* bounds of the first compilation's inputs, and the last clock reading
TwiceNodes == 2
TwiceEdges == 1
MaxClock == 2

\* new CodeGenerator(nodes, edges); relation records how the arguments were
\* chosen with respect to the first compilation's
NewGenerator(relation, nodes, edges) ==
    [relation |-> relation,
     pipeline |-> buildPipeline(nodes, edges),
     context |-> NewContext,
     pc |-> "built",
     validationErrors |-> <<>>,
     executionOrder |-> Null,
     result |-> NoResult]

\* edge types a caller may declare on the edges it passes in
DeclaredTypes == {"pdf", "number"}

\* the edges with a dataType field of the caller's choosing
Retype(edges, declared) ==
    [i \in 1..Len(edges) |->
        [id |-> edges[i].id, source |-> edges[i].source, target |-> edges[i].target,
         sourceHandle |-> edges[i].sourceHandle,
         targetHandle |-> edges[i].targetHandle,
         dataType |-> declared[i]]]

\* pipelines unrelated to the first compilation's: a valid chain, a cycle
\* and a pipeline that fails validation
IndependentInputs ==
    {[nodes |-> GraphNodes(2, [i \in 1..2 |-> EmptyConfig]),
      edges |-> WithEdgeIds(<<ReactEdge(NodeId(1), NodeId(2), "output", "input")>>)],
     [nodes |-> GraphNodes(2, [i \in 1..2 |-> PlainConfig]),
      edges |-> WithEdgeIds(<<ReactEdge(NodeId(2), NodeId(2), "output", "input")>>)],
     [nodes |-> <<TemplateNode(1, NodeId(1)), TemplateNode(4, NodeId(2))>>,
      edges |-> WithEdgeIds(<<ReactEdge(NodeId(1), NodeId(2), "pdf", "number")>>)]}

InitTwice ==
    /\ now = 0
    /\ \/ \E n \in 1..TwiceNodes :
            \E cfg \in GraphConfigs(n) :
                \E es \in SeqsUpTo(GraphEdgeChoices(n), TwiceEdges) :
                    pipeline = buildPipeline(GraphNodes(n, cfg), WithEdgeIds(es))
       \/ \E nodes \in TypedNodeLists :
            \E es \in SeqsUpTo(TypedEdgeChoices(nodes), 1) :
                pipeline = buildPipeline(nodes, WithEdgeIds(es))
    /\ pc = "built"
    /\ validationErrors = <<>>
    /\ executionOrder = Null
    /\ result = NoResult
    /\ context = NewContext
    /\ other = NoGenerator
    /\ InitCanvas

\* time passes between any two steps
Tick ==
    /\ now < MaxClock
    /\ now' = now + 1
    /\ UNCHANGED editorVars
    /\ UNCHANGED <<pipeline, pc, validationErrors, executionOrder, result,
                   context, other>>

\* a second call of generateCodeFromPipeline: on the arguments of the first
\* call, on the same arguments with other dataType fields on the edges, or
\* on a pipeline of its own
ConstructOther ==
    /\ other = NoGenerator
    /\ \/ other' = NewGenerator("same", pipeline.nodes, pipeline.edges)
       \/ /\ Len(pipeline.edges) > 0
          /\ \E declared \in [1..Len(pipeline.edges) -> DeclaredTypes] :
                other' = NewGenerator("retyped", pipeline.nodes,
                                      Retype(pipeline.edges, declared))
       \/ \E input \in IndependentInputs :
                other' = NewGenerator("independent", input.nodes, input.edges)
    /\ UNCHANGED editorVars
    /\ UNCHANGED <<pipeline, pc, validationErrors, executionOrder, result,
                   context, now>>

\* the steps of generate() on the second CodeGenerator
ValidateOther ==
    /\ other.pc = "built"
    /\ LET errors == validatePipeline(other.pipeline)
       IN  other' = IF Len(errors) > 0
                    THEN [other EXCEPT !.validationErrors = errors,
                                       !.result = Failure(errors),
                                       !.pc = "rejected"]
                    ELSE [other EXCEPT !.validationErrors = errors,
                                       !.pc = "validated"]
    /\ UNCHANGED editorVars
    /\ UNCHANGED <<pipeline, pc, validationErrors, executionOrder, result,
                   context, now>>

ScheduleOther ==
    /\ other.pc = "validated"
    /\ LET order == topologicalSort(other.pipeline)
       IN  other' = IF order = Null
                    THEN [other EXCEPT !.executionOrder = order,
                                       !.result = Failure(<<CycleError>>),
                                       !.pc = "rejected"]
                    ELSE [other EXCEPT !.executionOrder = order,
                                       !.pc = "scheduled"]
    /\ UNCHANGED editorVars
    /\ UNCHANGED <<pipeline, pc, validationErrors, executionOrder, result,
                   context, now>>

\* variant: the execution order is kept in a field that the CodeGenerators
\* share, so the emitter finds the first generator's order there once that
\* one has been scheduled
EmitOtherShared ==
    /\ other.pc = "scheduled"
    /\ LET order == IF executionOrder # Null
                    THEN executionOrder ELSE other.executionOrder
       IN  other' =
              IF generateKotlinCodeThrows(other.pipeline, order)
              THEN [other EXCEPT
                       !.context = addRequiredImports(other.context),
                       !.result = Failure(<<"Code generation failed: " \o
                           (IF orderHasUnknownNode(other.pipeline, order)
                            THEN "Cannot read properties of undefined"
                            ELSE "Converting circular structure to JSON")>>),
                       !.pc = "rejected"]
              ELSE [other EXCEPT
                       !.context = addRequiredImports(other.context),
                       !.result = [success |-> TRUE,
                                   kotlinCode |-> generateKotlinCode(other.pipeline,
                                                      other.context, order),
                                   buildGradle |-> generateBuildGradle,
                                   errors |-> <<>>,
                                   warnings |-> getWarnings(other.pipeline)],
                       !.pc = "emitted"]
    /\ UNCHANGED editorVars
    /\ UNCHANGED <<pipeline, pc, validationErrors, executionOrder, result,
                   context, now>>

EmitOther ==
    /\ other.pc = "scheduled"
    /\ other' =
          IF generateKotlinCodeThrows(other.pipeline, other.executionOrder)
          THEN [other EXCEPT
                   !.context = addRequiredImports(other.context),
                   !.result = Failure(<<"Code generation failed: " \o
                       (IF orderHasUnknownNode(other.pipeline, other.executionOrder)
                        THEN "Cannot read properties of undefined"
                        ELSE "Converting circular structure to JSON")>>),
                   !.pc = "rejected"]
          ELSE [other EXCEPT
                   !.context = addRequiredImports(other.context),
                   !.result = [success |-> TRUE,
                               kotlinCode |-> generateKotlinCode(other.pipeline,
                                                  other.context, other.executionOrder),
                               buildGradle |-> generateBuildGradle,
                               errors |-> <<>>,
                               warnings |-> getWarnings(other.pipeline)],
                   !.pc = "emitted"]
    /\ UNCHANGED editorVars
    /\ UNCHANGED <<pipeline, pc, validationErrors, executionOrder, result,
                   context, now>>

NextTwice ==
    \/ Validate \/ Schedule \/ Emit
    \/ Tick
    \/ ConstructOther \/ ValidateOther \/ ScheduleOther \/ EmitOther

SpecTwice == InitTwice /\ [][NextTwice]_vars

----------------------------------------------------------------------------
(* Vocabulary of the properties *)

Nodes == pipeline.nodes
Edges == pipeline.edges
NodeIdSet == {Nodes[i].id : i \in 1..Len(Nodes)}

\* the stage results are available once the corresponding step has run
ValidatorRan == pc # "built"
SchedulerRan == pc \notin {"built", "validated"} /\ validationErrors = <<>>
Succeeded    == pc = "emitted"

\* transitive closure of a relation given as a set of pairs
RECURSIVE TransitiveClosure(_)
TransitiveClosure(R) ==
    LET R2 == R \cup {<<x[1], y[2]>> : <<x, y>> \in {z \in R \X R : z[1][2] = z[2][1]}}
    IN  IF R2 = R THEN R ELSE TransitiveClosure(R2)

EdgePairs == {<<Edges[i].source, Edges[i].target>> : i \in 1..Len(Edges)}
Reaches   == TransitiveClosure(EdgePairs)
HasCycle  == \E pr \in Reaches : pr[1] = pr[2]

\* position of a node id in a sequence of ids, 0 when absent
PositionIn(order, id) ==
    IF \E i \in 1..Len(order) : order[i] = id
    THEN CHOOSE i \in 1..Len(order) : order[i] = id
    ELSE 0

Occurrences(seq, x) == Cardinality({i \in 1..Len(seq) : seq[i] = x})

----------------------------------------------------------------------------
(* C1: for an acyclic pipeline the scheduler returns every node id exactly *)
(* once, and every edge's source node before its target node; nodes of     *)
(* disconnected subgraphs and nodes joined by parallel edges included.     *)
C1_ScheduleIsTopologicalPermutation ==
    (SchedulerRan /\ ~HasCycle) =>
        /\ executionOrder # Null
        /\ Len(executionOrder) = Len(Nodes)
        /\ \A id \in NodeIdSet : Occurrences(executionOrder, id) = 1
        /\ \A i \in 1..Len(Edges) :
              PositionIn(executionOrder, Edges[i].source)
                  < PositionIn(executionOrder, Edges[i].target)

\* an acyclic pipeline with two parallel edges that run against the
\* declaration order and a node no edge touches has been scheduled
C1_Witness ==
    /\ SchedulerRan
    /\ ~HasCycle
    /\ executionOrder # Null
    /\ \E i, j \in 1..Len(Edges) :
          /\ i # j
          /\ Edges[i].source = Edges[j].source
          /\ Edges[i].target = Edges[j].target
          /\ PositionIn([k \in 1..Len(Nodes) |-> Nodes[k].id], Edges[i].target)
                < PositionIn([k \in 1..Len(Nodes) |-> Nodes[k].id], Edges[i].source)
    /\ \E id \in NodeIdSet :
          \A i \in 1..Len(Edges) : Edges[i].source # id /\ Edges[i].target # id

(* C2: a pipeline whose edges contain a directed cycle never gets an       *)
(* ordering from the scheduler: topologicalSort returns null, generate     *)
(* reports 'Pipeline contains circular dependencies', and no source text   *)
(* is emitted.                                                             *)
C2_CycleIsRejected ==
    HasCycle =>
        /\ "kotlinCode" \notin DOMAIN result
        /\ SchedulerRan =>
              /\ executionOrder = Null
              /\ pc = "rejected"
              /\ result = Failure(<<CycleError>>)

\* the scheduler has run on a two-node cycle A -> B, B -> A
C2_Witness ==
    /\ SchedulerRan
    /\ result = Failure(<<CycleError>>)
    /\ \E i, j \in 1..Len(Edges) :
          /\ Edges[i].source # Edges[i].target
          /\ Edges[i].source = Edges[j].target
          /\ Edges[i].target = Edges[j].source

----------------------------------------------------------------------------
(* Vocabulary of the validator properties, stated on the pipeline itself *)

HasInputNode  == \E i \in 1..Len(Nodes) : Nodes[i].type = "input"
HasOutputNode == \E i \in 1..Len(Nodes) : Nodes[i].type = "output"

\* node ids are unique, so an id names at most one node
NodeById(id) == CHOOSE n \in Range(Nodes) : n.id = id

NodesResolve(e) == e.source \in NodeIdSet /\ e.target \in NodeIdSet

SourcePortResolves(e) ==
    /\ e.source \in NodeIdSet
    /\ \E q \in Range(NodeById(e.source).outputs) : q.id = e.sourceHandle

TargetPortResolves(e) ==
    /\ e.target \in NodeIdSet
    /\ \E q \in Range(NodeById(e.target).inputs) : q.id = e.targetHandle

PortsResolve(e) == SourcePortResolves(e) /\ TargetPortResolves(e)

SourceType(e) ==
    (CHOOSE q \in Range(NodeById(e.source).outputs) : q.id = e.sourceHandle).dataType
TargetType(e) ==
    (CHOOSE q \in Range(NodeById(e.target).inputs) : q.id = e.targetHandle).dataType

\* the compatibility matrix as a directed relation: <<source type, target type>>
MatrixPairs ==
    {<<"pdf", "text">>, <<"text", "chunks">>, <<"chunks", "embeddings">>,
     <<"chunks", "text">>, <<"json", "text">>, <<"boolean", "text">>,
     <<"number", "text">>}

TypesRelated(s, t) == s = t \/ <<s, t>> \in MatrixPairs

\* an edge is dangling when a node id or a port id of it does not resolve
Dangling(e) == ~NodesResolve(e) \/ ~PortsResolve(e)

TypeCompatible(e) == PortsResolve(e) /\ TypesRelated(SourceType(e), TargetType(e))
TypeMismatch(e)   == PortsResolve(e) /\ ~TypesRelated(SourceType(e), TargetType(e))

ExpectedTypeError(e) ==
    IncompatibleTypesError(SourceType(e), TargetType(e),
                           NodeById(e.source).label, NodeById(e.target).label)

\* the diagnostics one edge calls for, taken on its own
EdgeDiagnostics(e) ==
    IF ~NodesResolve(e) THEN <<InvalidConnectionError(e)>>
    ELSE IF TypeMismatch(e) THEN <<ExpectedTypeError(e)>>
    ELSE <<>>

----------------------------------------------------------------------------
(* C3: validatePipeline returns no diagnostic for an acyclic pipeline with *)
(* an input node, an output node and only type-compatible edges (every     *)
(* edge resolves to two ports whose types are equal or matrix-related).    *)
C3_ValidPipelineHasNoDiagnostics ==
    (/\ ValidatorRan
     /\ ~HasCycle
     /\ HasInputNode
     /\ HasOutputNode
     /\ \A i \in 1..Len(Edges) : TypeCompatible(Edges[i]))
        => validationErrors = <<>>

\* a valid pipeline with an edge whose types differ but are matrix-related
C3_Witness ==
    /\ ValidatorRan
    /\ ~HasCycle
    /\ HasInputNode
    /\ HasOutputNode
    /\ \A i \in 1..Len(Edges) : TypeCompatible(Edges[i])
    /\ \E i \in 1..Len(Edges) : SourceType(Edges[i]) # TargetType(Edges[i])
    /\ validationErrors = <<>>

(* C4: for every dangling edge (a node id or a port id of it does not      *)
(* resolve) validatePipeline returns a reference error naming that edge.   *)
C4_DanglingEdgeIsReported ==
    ValidatorRan =>
        \A i \in 1..Len(Edges) :
            Dangling(Edges[i]) =>
                InvalidConnectionError(Edges[i]) \in Range(validationErrors)

(* C5: each edge whose resolved port types are neither equal nor related   *)
(* by the matrix gets one type error that names both types and both node   *)
(* labels.                                                                 *)
C5_TypeMismatchIsReported ==
    ValidatorRan =>
        \A i \in 1..Len(Edges) :
            TypeMismatch(Edges[i]) =>
                Occurrences(validationErrors, ExpectedTypeError(Edges[i]))
                    = Cardinality({j \in 1..Len(Edges) :
                          /\ TypeMismatch(Edges[j])
                          /\ ExpectedTypeError(Edges[j]) = ExpectedTypeError(Edges[i])})

\* scenario B: an edge from a pdf port to a number port has been validated
C5_Witness ==
    /\ ValidatorRan
    /\ \E i \in 1..Len(Edges) :
          /\ TypeMismatch(Edges[i])
          /\ SourceType(Edges[i]) = "pdf"
          /\ TargetType(Edges[i]) = "number"
          /\ ExpectedTypeError(Edges[i]) \in Range(validationErrors)

(* C6: a pipeline without input node gets exactly one missing-input error, *)
(* a pipeline without output node exactly one missing-output error.        *)
C6_MissingCategoryReportedOnce ==
    ValidatorRan =>
        /\ ~HasInputNode  => Occurrences(validationErrors, MissingInputError) = 1
        /\ ~HasOutputNode => Occurrences(validationErrors, MissingOutputError) = 1

\* a pipeline with nodes and edges but neither input nor output node
C6_Witness ==
    /\ ValidatorRan
    /\ Len(Nodes) > 0
    /\ Len(Edges) > 0
    /\ ~HasInputNode
    /\ ~HasOutputNode
    /\ Occurrences(validationErrors, MissingInputError) = 1
    /\ Occurrences(validationErrors, MissingOutputError) = 1

(* C7: a result of generate is all-or-nothing: a failed result has errors  *)
(* and neither source text nor dependency manifest, a successful result    *)
(* has no errors and has source text.                                      *)
C7_ResultIsAllOrNothing ==
    /\ (result # NoResult) <=> (pc \in {"rejected", "emitted"})
    /\ result # NoResult =>
          IF result.success
          THEN /\ result.errors = <<>>
               /\ "kotlinCode" \in DOMAIN result
          ELSE /\ Len(result.errors) > 0
               /\ "kotlinCode" \notin DOMAIN result
               /\ "buildGradle" \notin DOMAIN result

\* a failed result that comes from the catch block: validation and
\* scheduling had passed
C7_Witness ==
    /\ pc = "rejected"
    /\ validationErrors = <<>>
    /\ executionOrder # Null
    /\ ~result.success

(* C8: validatePipeline runs every check: the list it returns is the       *)
(* missing-input error, the missing-output error and the diagnostics of    *)
(* each edge taken on its own, one after the other; no violation found     *)
(* earlier removes a later one.                                            *)
C8_AllChecksRun ==
    ValidatorRan =>
        validationErrors =
            (IF HasInputNode THEN <<>> ELSE <<MissingInputError>>)
            \o (IF HasOutputNode THEN <<>> ELSE <<MissingOutputError>>)
            \o Flatten([i \in 1..Len(Edges) |-> EdgeDiagnostics(Edges[i])])

\* both node-category checks fail, the first edge has an unresolved node and
\* a later edge has mismatching types: four diagnostics are returned
C8_Witness ==
    /\ ValidatorRan
    /\ ~HasInputNode
    /\ ~HasOutputNode
    /\ Len(Edges) >= 2
    /\ ~NodesResolve(Edges[1])
    /\ TypeMismatch(Edges[2])
    /\ Len(validationErrors) = 4

----------------------------------------------------------------------------
(* Vocabulary of the emitter properties, stated on the emitted program *)

Program == result.kotlinCode

\* the procedure a call of the execution sequence runs
ProcedureNamed(name) ==
    CHOOSE m \in Range(Program.classBody) : m.name = name

\* the procedure emitted for a node
ProcedureOfNode(id) ==
    CHOOSE m \in Range(Program.classBody) : m.node = id

KeysRead(m)    == {m.inputMappings[k].key : k \in 1..Len(m.inputMappings)}
KeysWritten(m) == {m.outputAssignments[k].key : k \in 1..Len(m.outputAssignments)}

\* keys written by the procedures called before position i of executePipeline
KeysWrittenBefore(i) ==
    UNION {KeysWritten(ProcedureNamed(Program.executionSequence[j].call)) :
              j \in 1..(i - 1)}

OutputNodes == SelectSeq(Nodes, LAMBDA n : n.type = "output")

----------------------------------------------------------------------------
(* C9: in the emitted program every key a procedure reads for an incoming  *)
(* edge is written by a procedure that executePipeline calls earlier.      *)
C9_ReadsAreDefinedEarlier ==
    Succeeded =>
        \A i \in 1..Len(Program.executionSequence) :
            KeysRead(ProcedureNamed(Program.executionSequence[i].call))
                \subseteq KeysWrittenBefore(i)

(* C10: for every output node, extractFinalOutputs maps the node's label   *)
(* to a key that the node's own procedure writes.                          *)
C10_ExtractedKeyIsWritten ==
    Succeeded =>
        /\ Len(Program.outputExtraction) = Len(OutputNodes)
        /\ \A i \in 1..Len(OutputNodes) :
              /\ Program.outputExtraction[i].label = OutputNodes[i].label
              /\ Program.outputExtraction[i].key
                    \in KeysWritten(ProcedureOfNode(OutputNodes[i].id))

----------------------------------------------------------------------------
(* Vocabulary of the node-logic properties *)

\* the categories generateNodeLogic has a routine for
HasStrategy(node) == node.type \in NodeTypes

\* names a procedure can refer to without declaring them: its own
\* `val config`, and the members nodeOutputs and ragPipeline of the class
AmbientNames == {"config", "nodeOutputs", "ragPipeline"}

(* C11: a compilation of a pipeline with a node whose category has no      *)
(* registered strategy never succeeds: once the emitter has run on such a  *)
(* pipeline the result is a failure with a diagnostic, not a program with  *)
(* a procedure of empty body for the node.                                 *)
C11_UnknownCategoryIsRejected ==
    (\E i \in 1..Len(Nodes) : ~HasStrategy(Nodes[i])) =>
        /\ ~Succeeded
        /\ (result # NoResult) => (~result.success /\ Len(result.errors) > 0)

----------------------------------------------------------------------------
(* Vocabulary of the properties about two compilations *)

FirstDone  == pc \in {"emitted", "rejected"}
OtherDone  == other.pc \in {"emitted", "rejected"}
OtherIs(relation) == other.pc # "none" /\ other.relation = relation

\* the source text without its 'Generated at' line
WithoutTimestamp(code) == [f \in DOMAIN code \ {"generatedAt"} |-> code[f]]

\* both fail with the same diagnostics in the same order, or both succeed
\* with the same source text up to the timestamp and the same manifest
SameOutcome(r1, r2) ==
    /\ r1.success = r2.success
    /\ r1.errors = r2.errors
    /\ r1.success =>
          /\ WithoutTimestamp(r1.kotlinCode) = WithoutTimestamp(r2.kotlinCode)
          /\ r1.buildGradle = r2.buildGradle

(* C12: two compilations of the same nodes and edges, run at any two times *)
(* and in any interleaving, end in the same outcome: the same diagnostics  *)
(* in the same order, or source texts that differ in the 'Generated at'    *)
(* line only and the same dependency manifest.                             *)
C12_CompilationIsDeterministic ==
    (OtherIs("same") /\ FirstDone /\ OtherDone) => SameOutcome(result, other.result)

\* the same pipeline has been compiled by two generators constructed at
\* different times, and the two programs were emitted at different times
C12_Witness ==
    /\ OtherIs("same")
    /\ pc = "emitted"
    /\ other.pc = "emitted"
    /\ pipeline.id # other.pipeline.id
    /\ result.kotlinCode.generatedAt # other.result.kotlinCode.generatedAt
    /\ Len(pipeline.edges) > 0

----------------------------------------------------------------------------
(* Vocabulary of the tie-break properties *)

\* no directed path of edges joins the two nodes, in either direction
Unordered(u, v) == <<u, v>> \notin Reaches /\ <<v, u>> \notin Reaches

\* some node declared before position i depends, directly or through other
\* nodes, on the node v
FeedsEarlierNode(v, i) == \E k \in 1..(i - 1) : <<v, Nodes[k].id>> \in Reaches

(* C13: in the execution order, two nodes without ordering constraint (no  *)
(* directed path between them in either direction) appear in the order in  *)
(* which they are declared.                                                *)
C13_UnorderedNodesInDeclarationOrder ==
    (SchedulerRan /\ executionOrder # Null) =>
        \A i, j \in 1..Len(Nodes) :
            (i < j /\ Unordered(Nodes[i].id, Nodes[j].id)) =>
                PositionIn(executionOrder, Nodes[i].id)
                    < PositionIn(executionOrder, Nodes[j].id)

(* C13, amended: two nodes without ordering constraint appear in the order *)
(* in which they are declared, unless the node declared later is a direct  *)
(* or indirect dependency of a node declared before the earlier one.       *)
C13_UnorderedNodesInVisitOrder ==
    (SchedulerRan /\ executionOrder # Null) =>
        \A i, j \in 1..Len(Nodes) :
            (/\ i < j
             /\ Unordered(Nodes[i].id, Nodes[j].id)
             /\ ~FeedsEarlierNode(Nodes[j].id, i)) =>
                PositionIn(executionOrder, Nodes[i].id)
                    < PositionIn(executionOrder, Nodes[j].id)

\* an order has been returned for a pipeline with two unconstrained pairs:
\* one that keeps its declaration order, and one where the node declared
\* later feeds an earlier node and has been moved to the front
C13_Witness ==
    /\ SchedulerRan
    /\ executionOrder # Null
    /\ \E i, j \in 1..Len(Nodes) :
          /\ i < j
          /\ Unordered(Nodes[i].id, Nodes[j].id)
          /\ ~FeedsEarlierNode(Nodes[j].id, i)
          /\ PositionIn(executionOrder, Nodes[i].id)
                < PositionIn(executionOrder, Nodes[j].id)
    /\ \E i, j \in 1..Len(Nodes) :
          /\ i < j
          /\ Unordered(Nodes[i].id, Nodes[j].id)
          /\ FeedsEarlierNode(Nodes[j].id, i)
          /\ PositionIn(executionOrder, Nodes[j].id)
                < PositionIn(executionOrder, Nodes[i].id)

----------------------------------------------------------------------------
(* Vocabulary of the strategy-selection properties *)

\* the incident edges of a node, without the node's own id
IncomingOf(id) ==
    LET incoming == SelectSeq(Edges, LAMBDA e : e.target = id)
    IN  [i \in 1..Len(incoming) |->
            <<incoming[i].source, incoming[i].sourceHandle, incoming[i].targetHandle>>]

OutgoingOf(id) ==
    LET outgoing == SelectSeq(Edges, LAMBDA e : e.source = id)
    IN  [i \in 1..Len(outgoing) |->
            <<outgoing[i].target, outgoing[i].sourceHandle, outgoing[i].targetHandle>>]

\* two nodes that agree in category, ports, config and incident edges
SameButForLabel(a, b) ==
    /\ a.type = b.type
    /\ a.inputs = b.inputs
    /\ a.outputs = b.outputs
    /\ a.config = b.config
    /\ IncomingOf(a.id) = IncomingOf(b.id)
    /\ OutgoingOf(a.id) = OutgoingOf(b.id)

\* the words the routines look for in a lower-cased label
LabelKeywords ==
    {<<"p", "d", "f">>, <<"t", "e", "x", "t">>,
     <<"c", "h", "u", "n", "k", "e", "r">>,
     <<"e", "m", "b", "e", "d", "d", "i", "n", "g">>,
     <<"e", "x", "t", "r", "a", "c", "t", "o", "r">>,
     <<"s", "e", "a", "r", "c", "h">>, <<"v", "e", "c", "t", "o", "r">>,
     <<"g", "e", "m", "m", "a">>, <<"p", "r", "o", "m", "p", "t">>,
     <<"i", "f">>}

KeywordsIn(label) == {k \in LabelKeywords : includes(toLowerCase(label), k)}

----------------------------------------------------------------------------
(* Vocabulary of the isolation property: generate() run alone on a         *)
(* pipeline, from a freshly constructed CodeGenerator, returns             *)
(* Standalone(p); the clock shows in the 'Generated at' line only.         *)

Standalone(p) ==
    LET errors == validatePipeline(p)
        order  == topologicalSort(p)
    IN  IF Len(errors) > 0 THEN Failure(errors)
        ELSE IF order = Null THEN Failure(<<CycleError>>)
        ELSE IF generateKotlinCodeThrows(p, order)
        THEN Failure(<<"Code generation failed: " \o
                        (IF orderHasUnknownNode(p, order)
                         THEN "Cannot read properties of undefined"
                         ELSE "Converting circular structure to JSON")>>)
        ELSE [success |-> TRUE,
              kotlinCode |-> generateKotlinCode(p, NewContext, order),
              buildGradle |-> generateBuildGradle,
              errors |-> <<>>,
              warnings |-> getWarnings(p)]

\* equal results, the timestamp of the source text apart
SameResult(r1, r2) ==
    /\ SameOutcome(r1, r2)
    /\ r1.warnings = r2.warnings
    /\ DOMAIN r1 = DOMAIN r2

(* C15: in every interleaving of the steps of two compilations, and        *)
(* whatever was compiled before, each compilation returns the result it    *)
(* returns when it runs alone from a fresh start.                          *)
C15_CompilationsDoNotInterfere ==
    /\ FirstDone => SameResult(result, Standalone(pipeline))
    /\ OtherDone => SameResult(other.result, Standalone(other.pipeline))

\* two compilations of unrelated pipelines have both emitted a program,
\* the second generator having been constructed later than the first
C15_Witness ==
    /\ OtherIs("independent")
    /\ pc = "emitted"
    /\ other.pc = "emitted"
    /\ pipeline.nodes # other.pipeline.nodes
    /\ pipeline.id # other.pipeline.id
    /\ result.kotlinCode.classBody # other.result.kotlinCode.classBody

----------------------------------------------------------------------------
\* the validator accepts an edge when it returns no type error for it
Accepted(e) == ExpectedTypeError(e) \notin Range(validationErrors)

\* an edge from a port of type s to a port of type t
Joins(e, s, t) == PortsResolve(e) /\ SourceType(e) = s /\ TargetType(e) = t

(* C16: the type check accepts an edge exactly when the type of its source *)
(* port equals the type of its target port or the target type is listed    *)
(* directly under the source type in the matrix.  The relation is directed *)
(* (pdf -> text accepted, text -> pdf rejected) and is not chained         *)
(* (pdf -> text and text -> chunks accepted, pdf -> chunks rejected).      *)
C16_TypeCheckIsTheMatrix ==
    ValidatorRan =>
        \A i \in 1..Len(Edges) :
            /\ PortsResolve(Edges[i]) =>
                  (Accepted(Edges[i]) <=>
                      TypesRelated(SourceType(Edges[i]), TargetType(Edges[i])))
            /\ Joins(Edges[i], "pdf", "text") => Accepted(Edges[i])
            /\ Joins(Edges[i], "text", "chunks") => Accepted(Edges[i])
            /\ Joins(Edges[i], "text", "pdf") => ~Accepted(Edges[i])
            /\ Joins(Edges[i], "pdf", "chunks") => ~Accepted(Edges[i])

\* the validator has rejected an edge from a pdf port to a chunks port
C16_Witness ==
    /\ ValidatorRan
    /\ \E i \in 1..Len(Edges) :
          /\ Joins(Edges[i], "pdf", "chunks")
          /\ ~Accepted(Edges[i])
          /\ validationErrors = <<ExpectedTypeError(Edges[i])>>

----------------------------------------------------------------------------
(* C17: the dataType field an edge arrives with is not trusted.  Two       *)
(* pipelines that differ in the dataType fields of their edges only are    *)
(* built with the same edge types, those of the source ports, and the      *)
(* validator returns the same diagnostics in the same order for both.      *)
C17_DeclaredEdgeTypeIsIgnored ==
    OtherIs("retyped") =>
        /\ other.pipeline.edges = pipeline.edges
        /\ (ValidatorRan /\ other.pc # "built") =>
              other.validationErrors = validationErrors

\* both validators have run on a pipeline whose edge joins a pdf port to a
\* number port, the second time with a dataType written on the edge, and
\* both report the mismatch of the port types
C17_Witness ==
    /\ OtherIs("retyped")
    /\ ValidatorRan
    /\ other.pc # "built"
    /\ \E i \in 1..Len(Edges) :
          /\ Joins(Edges[i], "pdf", "number")
          /\ validationErrors = <<ExpectedTypeError(Edges[i])>>
    /\ other.validationErrors = validationErrors

----------------------------------------------------------------------------
(* Vocabulary of the warning properties *)

ComplexityWarning ==
    "Pipeline has many processing nodes - consider optimizing for performance"

NoConfigWarning(label) ==
    "Node '" \o label \o "' has no configuration - using defaults"

ProcessingCount  == Cardinality({i \in 1..Len(Nodes) : Nodes[i].type = "processing"})
EmptyConfigNodes == {i \in 1..Len(Nodes) : Nodes[i].config = <<>>}

(* C18: the warnings of a successful compilation are one warning for each  *)
(* node whose config is empty, none for a node with a non-empty config,    *)
(* and the complexity warning exactly when the pipeline has more than ten  *)
(* processing nodes: none at ten, one at eleven.                           *)
C18_WarningsMatchPipeline ==
    Succeeded =>
        /\ \A i \in 1..Len(Nodes) :
              Occurrences(result.warnings, NoConfigWarning(Nodes[i].label))
                  = Cardinality({j \in EmptyConfigNodes :
                                    Nodes[j].label = Nodes[i].label})
        /\ Occurrences(result.warnings, ComplexityWarning)
              = (IF ProcessingCount > 10 THEN 1 ELSE 0)
        /\ Len(result.warnings)
              = Cardinality(EmptyConfigNodes) + Occurrences(result.warnings, ComplexityWarning)
        /\ ProcessingCount = 10 => ComplexityWarning \notin Range(result.warnings)
        /\ ProcessingCount = 11 => ComplexityWarning \in Range(result.warnings)

\* a pipeline with eleven processing nodes and two nodes without
\* configuration has been compiled: three warnings
C18_Witness ==
    /\ Succeeded
    /\ ProcessingCount = 11
    /\ Cardinality(EmptyConfigNodes) = 2
    /\ ComplexityWarning \in Range(result.warnings)
    /\ Len(result.warnings) = 3

----------------------------------------------------------------------------
(* Vocabulary of the stage-order property *)

\* the moves of generate(): each stage hands over to the next or rejects
StageTransitions ==
    {<<"built", "validated">>, <<"built", "rejected">>,
     <<"validated", "scheduled">>, <<"validated", "rejected">>,
     <<"scheduled", "emitted">>, <<"scheduled", "rejected">>}

\* the pipeline violates one of the validator's checks
ViolatesValidatorCheck ==
    \/ ~HasInputNode
    \/ ~HasOutputNode
    \/ \E i \in 1..Len(Edges) : EdgeDiagnostics(Edges[i]) # <<>>

(* C19: the stages run strictly in the order validate, schedule, emit.     *)
(* The scheduler starts only after the validator has returned no           *)
(* diagnostic, the emitter only after the scheduler has returned an order; *)
(* no result mixes validator diagnostics with the cycle error, and a       *)
(* cyclic pipeline that also violates a validator check is rejected with   *)
(* the validator's diagnostics only, before the scheduler runs.            *)
C19_StagesRunInOrder ==
    [][/\ pc' # pc => <<pc, pc'>> \in StageTransitions
       /\ executionOrder' # executionOrder =>
             (pc = "validated" /\ validationErrors = <<>>)
       /\ pc' = "emitted" =>
             (executionOrder # Null /\ validationErrors = <<>>)
       /\ (result' # NoResult /\ CycleError \in Range(result'.errors)) =>
             (result'.errors = <<CycleError>> /\ validationErrors' = <<>>)
       /\ (pc = "built" /\ HasCycle /\ ViolatesValidatorCheck) =>
             /\ pc' = "rejected"
             /\ result'.errors = validationErrors'
             /\ CycleError \notin Range(result'.errors)
             /\ executionOrder' = Null
      ]_vars

\* a cyclic pipeline without output node has been rejected by the
\* validator; the scheduler has not run
C19_Witness ==
    /\ pc = "rejected"
    /\ HasCycle
    /\ ~HasOutputNode
    /\ result.errors = validationErrors
    /\ validationErrors # <<>>
    /\ executionOrder = Null

----------------------------------------------------------------------------
(* Vocabulary of the variable-binding property *)

Statements(m) == m.logic.statements

\* names a procedure's logic refers to that neither an earlier statement of
\* the logic nor the enclosing class declares
LogicReads(m) ==
    UNION {Statements(m)[k].uses
               \ ({Statements(m)[j].val : j \in 1..(k - 1)} \cup AmbientNames) :
           k \in 1..Len(Statements(m))}

LogicDefines(m) == {Statements(m)[k].val : k \in 1..Len(Statements(m))}

\* the local variables the input mappings declare, one per incoming edge
MappedVariables(m) == {m.inputMappings[k].variable : k \in 1..Len(m.inputMappings)}

(* C20: an emitted procedure refers to no undefined variable: every local  *)
(* variable its logic reads is declared by one of its input mappings, and  *)
(* every <portId>Result that an output assignment stores is defined by its *)
(* logic.                                                                  *)
C20_NoUndefinedVariable ==
    Succeeded =>
        \A i \in 1..Len(Program.classBody) :
            LET m == Program.classBody[i]
            IN  /\ LogicReads(m) \subseteq MappedVariables(m)
                /\ \A k \in 1..Len(m.outputAssignments) :
                      m.outputAssignments[k].value \in LogicDefines(m)

----------------------------------------------------------------------------
(* one procedure per node, called once, in the scheduler's order *)

ProceduresOf(id) ==
    {i \in 1..Len(Program.classBody) : Program.classBody[i].node = id}

Calls == [i \in 1..Len(Program.executionSequence) |->
              Program.executionSequence[i].call]

ProceduresCalled(name) ==
    {i \in 1..Len(Program.classBody) : Program.classBody[i].name = name}

\* C21: an emitted program has exactly one procedure for each node of the
\* pipeline, and executePipeline is one call per node, each call naming
\* exactly one procedure, that of the node at the same position of the
\* scheduler's order
C21_OneProcedurePerNodeCalledInOrder ==
    Succeeded =>
        /\ Len(Program.classBody) = Len(Nodes)
        /\ \A id \in NodeIdSet : Cardinality(ProceduresOf(id)) = 1
        /\ Len(Calls) = Len(executionOrder)
        /\ \A i \in 1..Len(Calls) :
              /\ Cardinality(ProceduresCalled(Calls[i])) = 1
              /\ ProcedureNamed(Calls[i]).node = executionOrder[i]
        /\ \A i, j \in 1..Len(Calls) : i # j => Calls[i] # Calls[j]

----------------------------------------------------------------------------
(* a declaration order that is already topological is returned unchanged *)

DeclarationOrder == [i \in 1..Len(Nodes) |-> Nodes[i].id]

DeclaredTopologically ==
    \A i \in 1..Len(Edges) :
        /\ FindIndex(Nodes, Edges[i].source) > 0
        /\ FindIndex(Nodes, Edges[i].source) < FindIndex(Nodes, Edges[i].target)

\* C22: when every edge's source node is declared before its target node,
\* the scheduler returns the nodes in exactly their declaration order
C22_TopologicalDeclarationOrderIsKept ==
    (SchedulerRan /\ DeclaredTopologically) =>
        executionOrder = DeclarationOrder

\* a scheduled pipeline of three nodes or more whose edges, two at least,
\* all lead from an earlier declared node to a later declared one
C22_Witness ==
    /\ SchedulerRan
    /\ DeclaredTopologically
    /\ Len(Nodes) >= 3
    /\ Len(Edges) >= 2
    /\ executionOrder = DeclarationOrder

----------------------------------------------------------------------------
(* the keys of nodeOutputs *)

\* the (node id, port id) pairs the emitted program binds
BoundPairs ==
    UNION {{<<Nodes[i].id, Nodes[i].outputs[k].id>> :
               k \in 1..Len(Nodes[i].outputs)} : i \in 1..Len(Nodes)}

\* the key the procedure of the pair's node stores the pair's value under
KeyOfPair(pair) ==
    LET node == NodeById(pair[1])
        k    == FindIndex(node.outputs, pair[2])
    IN  ProcedureOfNode(pair[1]).outputAssignments[k].key

\* C23: in an emitted program distinct (node id, port id) pairs are bound
\* to distinct keys of nodeOutputs, so no pair's value is overwritten by
\* the value of another pair or read in its place
C23_DistinctPairsHaveDistinctKeys ==
    Succeeded =>
        \A a, b \in BoundPairs : a # b => KeyOfPair(a) # KeyOfPair(b)

----------------------------------------------------------------------------
(* termination of generate() *)

\* generate() has returned: a success result or a failure result
Returned ==
    /\ pc \in {"emitted", "rejected"}
    /\ result # NoResult
    /\ result.success <=> pc = "emitted"
    /\ ~result.success => Len(result.errors) > 0

----------------------------------------------------------------------------
(* The editor: PipelineCanvas and its ConfigurationPanel.  A canvas node   *)
(* is the React Flow node with the fields of node.data the handlers read   *)
(* and write next to it: position, status and errorMessage.               *)

\* the largest canvas whose editing is explored, the most edges drawn by
\* hand, the most pending timers, the largest value typed into a field
MaxCanvasNodes == 2
MaxCanvasEdges == 1
MaxTimers == 1
MaxConfigValue == 1
\* the last clock reading of an editing session
MaxEditorClock == 1

\* node.data.errorMessage when undefined
NoMessage == ""

\* the templates of the palette that are dragged on the canvas: 3 Embedding
\* Generator and 4 Vector Store of NODE_TEMPLATES
PaletteKinds == {3, 4}

PaletteLabel(kind) == IF kind = 3 THEN "Embedding Generator" ELSE "Vector Store"

\* { ...template.defaultConfig }: one numeric entry with its value
DefaultConfig == <<[key |-> "maxLength", kind |-> "number", value |-> 0]>>

CanvasNode(node, position) ==
    [id |-> node.id, type |-> node.type, label |-> node.label,
     inputs |-> node.inputs, outputs |-> node.outputs,
     config |-> DefaultConfig, position |-> position,
     status |-> "idle", errorMessage |-> NoMessage]

\* the position of a drop, the offset of a duplicate, and the farthest
\* position a duplicate is put at
DropPosition == 0
DuplicateOffset == 50
MaxPosition == 50

\* DOCUMENT_QA_TEMPLATE.nodes
DocumentQaNodes ==
    <<CanvasNode(ReactNode("pdf-input-1", "input", "PDF Input",
                    <<>>, <<Port("pdf", "pdf")>>, <<>>), 1),
      CanvasNode(ReactNode("pdf-extractor-1", "processing", "PDF Text Extractor",
                    <<Port("pdf", "pdf")>>, <<Port("text", "text")>>, <<>>), 2),
      CanvasNode(ReactNode("text-chunker-1", "processing", "Text Chunker",
                    <<Port("text", "text")>>, <<Port("chunks", "chunks")>>, <<>>), 3),
      CanvasNode(ReactNode("embedding-gen-1", "processing", "Embedding Generator",
                    <<Port("chunks", "chunks")>>,
                    <<Port("embeddings", "embeddings")>>, <<>>), 4),
      CanvasNode(ReactNode("vector-store-1", "retrieval", "Vector Store",
                    <<Port("embeddings", "embeddings")>>,
                    <<Port("stored", "number")>>, <<>>), 5),
      CanvasNode(ReactNode("query-input-1", "input", "Text Input",
                    <<>>, <<Port("text", "text")>>, <<>>), 6),
      CanvasNode(ReactNode("semantic-search-1", "retrieval", "Semantic Search",
                    <<Port("query", "text")>>, <<Port("results", "chunks")>>, <<>>), 7),
      CanvasNode(ReactNode("prompt-builder-1", "llm", "Prompt Builder",
                    <<Port("query", "text"), Port("context", "chunks")>>,
                    <<Port("prompt", "text")>>, <<>>), 8),
      CanvasNode(ReactNode("gemma-gen-1", "llm", "Gemma Generator",
                    <<Port("prompt", "text")>>, <<Port("response", "text")>>, <<>>), 9),
      CanvasNode(ReactNode("text-response-1", "output", "Text Response",
                    <<Port("text", "text")>>, <<>>, <<>>), 10)>>

TemplateEdge(id, source, target, sourceHandle, targetHandle, dataType) ==
    [id |-> id, source |-> source, target |-> target,
     sourceHandle |-> sourceHandle, targetHandle |-> targetHandle,
     dataType |-> dataType]

\* DOCUMENT_QA_TEMPLATE.edges
DocumentQaEdges ==
    <<TemplateEdge("edge-1", "pdf-input-1", "pdf-extractor-1", "pdf", "pdf", "pdf"),
      TemplateEdge("edge-2", "pdf-extractor-1", "text-chunker-1", "text", "text", "text"),
      TemplateEdge("edge-3", "text-chunker-1", "embedding-gen-1",
                   "chunks", "chunks", "chunks"),
      TemplateEdge("edge-4", "embedding-gen-1", "vector-store-1",
                   "embeddings", "embeddings", "embeddings"),
      TemplateEdge("edge-5", "query-input-1", "semantic-search-1",
                   "text", "query", "text"),
      TemplateEdge("edge-6", "query-input-1", "prompt-builder-1",
                   "text", "query", "text"),
      TemplateEdge("edge-7", "semantic-search-1", "prompt-builder-1",
                   "results", "context", "chunks"),
      TemplateEdge("edge-8", "prompt-builder-1", "gemma-gen-1",
                   "prompt", "prompt", "text"),
      TemplateEdge("edge-9", "gemma-gen-1", "text-response-1",
                   "response", "text", "text")>>

DOCUMENT_QA_TEMPLATE == [nodes |-> DocumentQaNodes, edges |-> DocumentQaEdges]

\* the rules of validateDataTypeCompatibility in the editor
editorCompatibilityRules ==
    [s \in DataTypes |->
        CASE s = "text"       -> {"chunks"}
          [] s = "pdf"        -> {"text"}
          [] s = "chunks"     -> {"embeddings"}
          [] s = "embeddings" -> {"json"}
          [] s = "json"       -> {"text"}
          [] s = "boolean"    -> {"json"}
          [] s = "number"     -> {"json", "text"}]

validateDataTypeCompatibility(sourceType, targetType) ==
    \/ sourceType = targetType
    \/ /\ sourceType \in DOMAIN editorCompatibilityRules
       /\ targetType \in editorCompatibilityRules[sourceType]

CannotConnect(sourceType, targetType) ==
    "Cannot connect " \o sourceType \o " to " \o targetType

\* errorMessage?.includes('Cannot connect')
IsCannotConnect(message) ==
    \E s \in DataTypes, t \in DataTypes : message = CannotConnect(s, t)

\* nodes.find(node => node.id === id): the index of the first such node, 0
\* when there is none
FindNode(id) == FindIndex(canvasNodes, id)

Contains(seq, x) == \E i \in 1..Len(seq) : seq[i] = x

\* the config state of the mounted ConfigurationPanel: set from
\* node.data.config when the panel gets a node object; none when the panel
\* is not rendered
PanelConfigOf(node, open) ==
    IF open /\ node # NoSelection THEN node.config ELSE <<>>

----------------------------------------------------------------------------
(* The handlers of PipelineCanvas.  Each is one action: a handler runs to  *)
(* completion before the next event is taken, and the state updates it     *)
(* queues are applied together.                                            *)

\* an editing session is followed up to its Generate click: the handlers of
\* the canvas neither read nor write what the compiler leaves behind
InSession == pc = "none"

CanEdit == Len(canvasNodes) <= MaxCanvasNodes

\* onDrop: a node made from the dragged template is appended
onDrop(kind) ==
    /\ InSession
    /\ Len(canvasNodes) < MaxCanvasNodes
    /\ LET template == CatalogueNode(kind, "", PaletteLabel(kind))
           id       == template.type \o "-" \o ToString(now)
           newNode  == CanvasNode(CatalogueNode(kind, id, template.label),
                                  DropPosition)
       IN  canvasNodes' = Append(canvasNodes, newNode)
    /\ UNCHANGED <<canvasEdges, selectedNode, selectedNodes, isConfigOpen,
                   panelConfig, timers, now>>
    /\ UNCHANGED compilerVars

\* addEdge(newEdge, eds): a connection that is already drawn is not added
connectionExists(edge, eds) ==
    \E i \in 1..Len(eds) :
        /\ eds[i].source = edge.source
        /\ eds[i].target = edge.target
        /\ eds[i].sourceHandle = edge.sourceHandle
        /\ eds[i].targetHandle = edge.targetHandle

\* onConnect: the connection is refused with an error on the target node
\* and a timer that clears it, or drawn as a new edge
onConnect(source, target, sourceHandle, targetHandle) ==
    /\ InSession
    /\ CanEdit
    /\ FindNode(source) > 0
    /\ FindNode(target) > 0
    /\ LET sourceNode == canvasNodes[FindNode(source)]
           targetNode == canvasNodes[FindNode(target)]
           si == FindIndex(sourceNode.outputs, sourceHandle)
           ti == FindIndex(targetNode.inputs, targetHandle)
       IN  /\ si > 0
           /\ ti > 0
           /\ IF ~validateDataTypeCompatibility(sourceNode.outputs[si].dataType,
                                                targetNode.inputs[ti].dataType)
              THEN /\ Len(timers) < MaxTimers
                   /\ now < MaxEditorClock
                   /\ canvasNodes' =
                        [i \in 1..Len(canvasNodes) |->
                            IF canvasNodes[i].id = targetNode.id
                            THEN [canvasNodes[i] EXCEPT
                                    !.status = "error",
                                    !.errorMessage =
                                        CannotConnect(
                                            sourceNode.outputs[si].dataType,
                                            targetNode.inputs[ti].dataType)]
                            ELSE canvasNodes[i]]
                   /\ timers' = Append(timers, [target |-> targetNode.id,
                                                 setAt |-> now])
                   /\ UNCHANGED canvasEdges
              ELSE LET newEdge ==
                         [id |-> "edge-" \o source \o "-" \o target \o "-"
                                     \o ToString(now),
                          source |-> source, target |-> target,
                          sourceHandle |-> sourceHandle,
                          targetHandle |-> targetHandle,
                          dataType |-> sourceNode.outputs[si].dataType]
                   IN  /\ Len(canvasEdges) < MaxCanvasEdges
                       /\ canvasEdges' = IF connectionExists(newEdge, canvasEdges)
                                         THEN canvasEdges
                                         ELSE Append(canvasEdges, newEdge)
                       /\ UNCHANGED <<canvasNodes, timers>>
    /\ UNCHANGED <<selectedNode, selectedNodes, isConfigOpen, panelConfig, now>>
    /\ UNCHANGED compilerVars

\* setTimeout(..., 3000) of onConnect fires, at a later reading of the clock
\* than the one at which it was set: the error of the target node is cleared
\* if it still is a 'Cannot connect' error
ClearError ==
    /\ InSession
    /\ Len(timers) > 0
    /\ Head(timers).setAt < now
    /\ canvasNodes' =
          [i \in 1..Len(canvasNodes) |->
              IF /\ canvasNodes[i].id = Head(timers).target
                 /\ IsCannotConnect(canvasNodes[i].errorMessage)
              THEN [canvasNodes[i] EXCEPT !.status = "idle",
                                          !.errorMessage = NoMessage]
              ELSE canvasNodes[i]]
    /\ timers' = Tail(timers)
    /\ UNCHANGED <<canvasEdges, selectedNode, selectedNodes, isConfigOpen,
                   panelConfig, now>>
    /\ UNCHANGED compilerVars

\* onNodeClick: the clicked node object becomes selectedNode; with Ctrl the
\* node is added to or taken out of the selection
onNodeClick(i, ctrlKey) ==
    /\ InSession
    /\ CanEdit
    /\ i \in 1..Len(canvasNodes)
    /\ LET node == canvasNodes[i]
       IN  IF ctrlKey
           THEN IF Contains(selectedNodes, node.id)
                THEN LET newSelection ==
                             SelectSeq(selectedNodes, LAMBDA id : id # node.id)
                     IN  /\ selectedNodes' = newSelection
                         /\ selectedNode' =
                               IF Len(newSelection) = 1
                               THEN IF FindNode(newSelection[1]) > 0
                                    THEN canvasNodes[FindNode(newSelection[1])]
                                    ELSE NoSelection
                               ELSE IF Len(newSelection) = 0
                               THEN NoSelection
                               ELSE selectedNode
                ELSE /\ selectedNodes' = Append(selectedNodes, node.id)
                     /\ selectedNode' = node
           ELSE /\ selectedNodes' = <<node.id>>
                /\ selectedNode' = node
    /\ isConfigOpen' = TRUE
    /\ panelConfig' = PanelConfigOf(selectedNode', TRUE)
    /\ UNCHANGED <<canvasNodes, canvasEdges, timers, now>>
    /\ UNCHANGED compilerVars

\* onPaneClick
onPaneClick ==
    /\ InSession
    /\ selectedNode' = NoSelection
    /\ selectedNodes' = <<>>
    /\ isConfigOpen' = FALSE
    /\ panelConfig' = <<>>
    /\ UNCHANGED <<canvasNodes, canvasEdges, timers, now>>
    /\ UNCHANGED compilerVars


\* variant: the Delete key removes the selected nodes and leaves the edges
handleKeyDownDeleteNodesOnly ==
    /\ InSession
    /\ CanEdit
    /\ Len(selectedNodes) > 0
    /\ canvasNodes' = SelectSeq(canvasNodes,
                                LAMBDA node : ~Contains(selectedNodes, node.id))
    /\ selectedNodes' = <<>>
    /\ selectedNode' = NoSelection
    /\ isConfigOpen' = FALSE
    /\ panelConfig' = <<>>
    /\ UNCHANGED <<canvasEdges, timers, now>>
    /\ UNCHANGED compilerVars

\* handleKeyDown, Delete: the selected nodes and the edges connected to them
\* are removed
handleKeyDownDelete ==
    /\ InSession
    /\ CanEdit
    /\ Len(selectedNodes) > 0
    /\ canvasNodes' = SelectSeq(canvasNodes,
                                LAMBDA node : ~Contains(selectedNodes, node.id))
    /\ canvasEdges' = SelectSeq(canvasEdges,
                                LAMBDA edge : /\ ~Contains(selectedNodes, edge.source)
                                              /\ ~Contains(selectedNodes, edge.target))
    /\ selectedNodes' = <<>>
    /\ selectedNode' = NoSelection
    /\ isConfigOpen' = FALSE
    /\ panelConfig' = <<>>
    /\ UNCHANGED <<timers, now>>
    /\ UNCHANGED compilerVars

\* handleKeyDown, Ctrl+D: a copy of every selected node is appended and the
\* copies become the selection
handleKeyDownDuplicate ==
    /\ InSession
    /\ CanEdit
    /\ Len(selectedNodes) > 0
    /\ LET nodesToDuplicate ==
               SelectSeq(canvasNodes, LAMBDA node : Contains(selectedNodes, node.id))
           duplicatedNodes ==
               [i \in 1..Len(nodesToDuplicate) |->
                   [nodesToDuplicate[i] EXCEPT
                       !.id = @ \o "-copy-" \o ToString(now),
                       !.position = @ + DuplicateOffset,
                       !.label = @ \o " (Copy)"]]
       IN  /\ Len(nodesToDuplicate) > 0
           /\ Len(canvasNodes) + Len(duplicatedNodes) <= MaxCanvasNodes
           /\ \A i \in 1..Len(duplicatedNodes) :
                 duplicatedNodes[i].position <= MaxPosition
           /\ canvasNodes' = canvasNodes \o duplicatedNodes
           /\ selectedNodes' = [i \in 1..Len(duplicatedNodes) |-> duplicatedNodes[i].id]
           /\ selectedNode' = duplicatedNodes[1]
           /\ panelConfig' = PanelConfigOf(duplicatedNodes[1], isConfigOpen)
    /\ UNCHANGED <<canvasEdges, isConfigOpen, timers, now>>
    /\ UNCHANGED compilerVars

\* variant: the edges of the template are taken as they are, with the
\* endpoints the template gives them
loadTemplateKeepingEndpoints(template) ==
    /\ InSession
    /\ canvasNodes' =
          [i \in 1..Len(template.nodes) |->
              [template.nodes[i] EXCEPT
                  !.id = @ \o "-" \o ToString(now),
                  !.status = "idle"]]
    /\ canvasEdges' =
          [i \in 1..Len(template.edges) |->
              [template.edges[i] EXCEPT
                  !.id = "edge-" \o ToString(now) \o "-0." \o ToString(i)]]
    /\ selectedNode' = NoSelection
    /\ selectedNodes' = <<>>
    /\ isConfigOpen' = FALSE
    /\ panelConfig' = <<>>
    /\ UNCHANGED <<timers, now>>
    /\ UNCHANGED compilerVars

\* loadTemplate: the canvas is replaced by renamed copies of the template's
\* nodes and by its edges, re-pointed through nodeIdMap; Math.random() is a
\* number of its own for every edge
loadTemplate(template) ==
    /\ InSession
    /\ LET templateNodes ==
               [i \in 1..Len(template.nodes) |->
                   [template.nodes[i] EXCEPT
                       !.id = @ \o "-" \o ToString(now),
                       !.status = "idle"]]
           nodeIdMap(id) ==
               IF FindIndex(template.nodes, id) > 0
               THEN templateNodes[FindIndex(template.nodes, id)].id
               ELSE id
           templateEdges ==
               [i \in 1..Len(template.edges) |->
                   [template.edges[i] EXCEPT
                       !.id = "edge-" \o ToString(now) \o "-0." \o ToString(i),
                       !.source = nodeIdMap(@),
                       !.target = nodeIdMap(@)]]
       IN  /\ canvasNodes' = templateNodes
           /\ canvasEdges' = templateEdges
    /\ selectedNode' = NoSelection
    /\ selectedNodes' = <<>>
    /\ isConfigOpen' = FALSE
    /\ panelConfig' = <<>>
    /\ UNCHANGED <<timers, now>>
    /\ UNCHANGED compilerVars

\* clearCanvas
clearCanvas ==
    /\ InSession
    /\ canvasNodes' = <<>>
    /\ canvasEdges' = <<>>
    /\ selectedNode' = NoSelection
    /\ selectedNodes' = <<>>
    /\ isConfigOpen' = FALSE
    /\ panelConfig' = <<>>
    /\ UNCHANGED <<timers, now>>
    /\ UNCHANGED compilerVars

\* ConfigurationPanel.handleConfigChange with onNodeUpdate: the panel's node
\* object, its config replaced, is put in the place of the canvas node of
\* the same id
handleConfigChange(key, value) ==
    /\ InSession
    /\ isConfigOpen
    /\ selectedNode # NoSelection
    /\ LET newConfig ==
               [i \in 1..Len(panelConfig) |->
                   IF panelConfig[i].key = key
                   THEN [panelConfig[i] EXCEPT !.value = value]
                   ELSE panelConfig[i]]
           updatedNode == [selectedNode EXCEPT !.config = newConfig]
       IN  /\ panelConfig' = newConfig
           /\ canvasNodes' =
                 [i \in 1..Len(canvasNodes) |->
                     IF canvasNodes[i].id = updatedNode.id
                     THEN updatedNode
                     ELSE canvasNodes[i]]
    /\ UNCHANGED <<canvasEdges, selectedNode, selectedNodes, isConfigOpen,
                   timers, now>>
    /\ UNCHANGED compilerVars

\* the arguments handleGenerate passes on: the React Flow nodes and edges
CanvasData ==
    [nodes |-> [i \in 1..Len(canvasNodes) |->
                  ReactNode(canvasNodes[i].id, canvasNodes[i].type,
                            canvasNodes[i].label, canvasNodes[i].inputs,
                            canvasNodes[i].outputs,
                            [k \in 1..Len(canvasNodes[i].config) |->
                                [key  |-> canvasNodes[i].config[k].key,
                                 kind |-> canvasNodes[i].config[k].kind]])],
     edges |-> [i \in 1..Len(canvasEdges) |->
                  [id |-> canvasEdges[i].id,
                   source |-> canvasEdges[i].source,
                   target |-> canvasEdges[i].target,
                   sourceHandle |-> canvasEdges[i].sourceHandle,
                   targetHandle |-> canvasEdges[i].targetHandle]]]

\* handleGenerate: generateCodeFromPipeline(nodes, edges) on the canvas, one
\* synchronous call
handleGenerate ==
    /\ InSession
    /\ LET p      == buildPipeline(CanvasData.nodes, CanvasData.edges)
           errors == validatePipeline(p)
           order  == IF Len(errors) > 0 THEN Null ELSE topologicalSort(p)
           r      == Standalone(p)
       IN  /\ pipeline' = p
           /\ validationErrors' = errors
           /\ executionOrder' = order
           /\ result' = r
           /\ pc' = IF r.success THEN "emitted" ELSE "rejected"
           /\ context' = IF Len(errors) = 0 /\ order # Null
                         THEN addRequiredImports(NewContext)
                         ELSE NewContext
    /\ UNCHANGED <<other, now>>
    /\ UNCHANGED editorVars

\* before the first Generate click no CodeGenerator exists
NoPipeline == [id |-> "none", name |-> PipelineName, nodes |-> <<>>, edges |-> <<>>]

InitEditor ==
    /\ now = 0
    /\ pipeline = NoPipeline
    /\ pc = "none"
    /\ validationErrors = <<>>
    /\ executionOrder = Null
    /\ result = NoResult
    /\ context = NewContext
    /\ other = NoGenerator
    /\ InitCanvas

\* the values typed into the numeric field; the default is 0
ConfigValues == 1..MaxConfigValue

\* a millisecond passes between two events
Elapse ==
    /\ InSession
    /\ now < MaxEditorClock
    /\ now' = now + 1
    /\ UNCHANGED editorVars
    /\ UNCHANGED compilerVars

NextEditor ==
    \/ \E kind \in PaletteKinds : onDrop(kind)
    \/ \E s, t \in 1..Len(canvasNodes) :
         \E sh \in {port.id : port \in Range(canvasNodes[s].outputs)},
            th \in {port.id : port \in Range(canvasNodes[t].inputs)} :
              onConnect(canvasNodes[s].id, canvasNodes[t].id, sh, th)
    \/ ClearError
    \/ \E i \in 1..Len(canvasNodes), ctrlKey \in BOOLEAN : onNodeClick(i, ctrlKey)
    \/ onPaneClick
    \/ handleKeyDownDelete
    \/ handleKeyDownDuplicate
    \/ loadTemplate(DOCUMENT_QA_TEMPLATE)
    \/ clearCanvas
    \/ \E value \in ConfigValues : handleConfigChange("maxLength", value)
    \/ handleGenerate
    \/ Elapse

SpecEditor == InitEditor /\ [][NextEditor]_vars

----------------------------------------------------------------------------
(* Properties of the editor *)

CanvasIds == {canvasNodes[i].id : i \in 1..Len(canvasNodes)}

\* C25: after any sequence of editor operations (drop, connect, delete,
\* duplicate, load template, clear) the source and the target of every edge
\* are nodes of the canvas; the Delete key takes the edges of the deleted
\* nodes with them
C25_EdgesReferToCanvasNodes ==
    \A i \in 1..Len(canvasEdges) :
        /\ canvasEdges[i].source \in CanvasIds
        /\ canvasEdges[i].target \in CanvasIds

\* an edge drawn by hand joins two nodes, one of which is selected: the
\* Delete key would remove a node an edge is connected to
C25_Witness ==
    /\ Len(canvasNodes) = 2
    /\ Len(canvasEdges) = 1
    /\ canvasEdges[1].source # canvasEdges[1].target
    /\ selectedNodes = <<canvasEdges[1].source>>

----------------------------------------------------------------------------
\* C26: after any sequence of drops, duplications and template loads, at
\* every reading of the clock (readings may repeat within a millisecond),
\* no two nodes on the canvas have the same id.
C26_NodeIdsAreDistinct ==
    \A i, j \in 1..Len(canvasNodes) :
        canvasNodes[i].id = canvasNodes[j].id => i = j

----------------------------------------------------------------------------
\* the node with this id shows a 'Cannot connect' error
ShowsConnectionError(nodes, id) ==
    \E i \in 1..Len(nodes) :
        /\ nodes[i].id = id
        /\ nodes[i].status = "error"
        /\ IsCannotConnect(nodes[i].errorMessage)

\* C27: a 'Cannot connect' error is transient.  When the timer of a refused
\* connection fires, its target node shows no such error; and a node on the
\* canvas that shows none comes to show one only in a step in which a
\* refused connection to it has armed a new timer -- whatever clicks,
\* configuration edits and connection attempts are interleaved.
C27_ConnectionErrorIsTransient ==
    [][ /\ ClearError =>
               ~ShowsConnectionError(canvasNodes', Head(timers).target)
        /\ \A id \in CanvasIds :
              ( /\ ~ShowsConnectionError(canvasNodes, id)
                /\ ShowsConnectionError(canvasNodes', id) )
              => /\ Len(timers') = Len(timers) + 1
                 /\ timers'[Len(timers')].target = id ]_vars

----------------------------------------------------------------------------
\* the canvas holds renamed copies of the template's nodes, in their order,
\* and the template's edges, each re-pointed to the copies of its endpoints
HoldsTemplate(template, nodes, edges) ==
    /\ Len(nodes) = Len(template.nodes)
    /\ Len(edges) = Len(template.edges)
    /\ \A i \in 1..Len(nodes) :
          /\ nodes[i].id # template.nodes[i].id
          /\ [nodes[i] EXCEPT !.id = template.nodes[i].id,
                              !.status = template.nodes[i].status]
                = template.nodes[i]
    /\ \A e \in 1..Len(edges) :
          /\ \E i \in 1..Len(nodes) :
                /\ template.nodes[i].id = template.edges[e].source
                /\ edges[e].source = nodes[i].id
          /\ \E i \in 1..Len(nodes) :
                /\ template.nodes[i].id = template.edges[e].target
                /\ edges[e].target = nodes[i].id
          /\ edges[e].sourceHandle = template.edges[e].sourceHandle
          /\ edges[e].targetHandle = template.edges[e].targetHandle

\* generating code from this canvas passes validation and scheduling and
\* returns source text
Compiles(data) ==
    LET p == buildPipeline(data.nodes, data.edges)
    IN  /\ validatePipeline(p) = <<>>
        /\ topologicalSort(p) # Null
        /\ Standalone(p).success
        /\ Standalone(p).kotlinCode # <<>>

\* C28: loadTemplate(DOCUMENT_QA_TEMPLATE), on any canvas, leaves exactly the
\* template's 10 nodes and 9 edges, every edge re-pointed to the renamed
\* copies of its endpoints, and code generation from that canvas passes
\* validation and scheduling and returns source text.
C28_DocumentQaTemplateCompiles ==
    [][ loadTemplate(DOCUMENT_QA_TEMPLATE) =>
          /\ Len(canvasNodes') = 10
          /\ Len(canvasEdges') = 9
          /\ HoldsTemplate(DOCUMENT_QA_TEMPLATE, canvasNodes', canvasEdges')
          /\ Compiles(CanvasData') ]_vars

\* the template was loaded over a canvas in use and code was generated from it
C28_Witness ==
    /\ HoldsTemplate(DOCUMENT_QA_TEMPLATE, canvasNodes, canvasEdges)
    /\ timers # <<>>
    /\ pc = "emitted"
    /\ result.success
    /\ Len(pipeline.nodes) = 10

----------------------------------------------------------------------------
\* the compiler's diagnostics for the canvas as it is
CanvasDiagnostics ==
    validatePipeline(buildPipeline(CanvasData.nodes, CanvasData.edges))

\* an 'Incompatible data types' diagnostic
IsIncompatibleTypes(message) ==
    \E s \in DataTypes, t \in DataTypes :
        \E i, j \in 1..Len(canvasNodes) :
            message = IncompatibleTypesError(s, t, canvasNodes[i].label,
                                             canvasNodes[j].label)

\* C29: the editor's connection check and the compiler's type check agree:
\* on a canvas whose edges were all drawn through connections that onConnect
\* accepted (or came with the template), the compiler reports no
\* 'Incompatible data types' error.
C29_AcceptedConnectionsPassTheCompiler ==
    \A k \in 1..Len(CanvasDiagnostics) :
        ~IsIncompatibleTypes(CanvasDiagnostics[k])

----------------------------------------------------------------------------
\* C30: a configuration edit changes only the config of the edited node:
\* that node's other fields (position, status, errorMessage among them) and
\* every other node are as they were on the canvas immediately before the
\* edit, whatever happened since the node was selected.
C30_ConfigEditChangesOnlyConfig ==
    [][ (\E value \in ConfigValues : handleConfigChange("maxLength", value)) =>
          /\ Len(canvasNodes') = Len(canvasNodes)
          /\ \A i \in 1..Len(canvasNodes) :
                IF canvasNodes[i].id = selectedNode.id
                THEN [canvasNodes'[i] EXCEPT !.config = canvasNodes[i].config]
                        = canvasNodes[i]
                ELSE canvasNodes'[i] = canvasNodes[i] ]_vars

====
